---- MODULE Spec2Model ----
(***************************************************************************)
(* A model of the game screen of smash2cash                                *)
(* (src/src/components/GameScreen.tsx): the round controller, the spawner, *)
(* the object pool, the spatial hash, the per-frame simulation step and    *)
(* the hit resolver.                                                       *)
(*                                                                         *)
(* Lengths are integers in tenths of a CSS pixel (the code's gravity, 0.1  *)
(* px per frame, is the unit), so 32 px is 320.  React state and the       *)
(* render it causes are committed atomically with the handler that sets    *)
(* it.  Every handler is one action.                                       *)
(***************************************************************************)
EXTENDS Integers, Sequences, FiniteSets, TLC

VARIABLES
    seconds,        \* useState(60): remaining seconds of the round
    gameOver,       \* useState(false)
    gameStarted,    \* useState(false)
    countdown,      \* useState(3): the start countdown
    hitHistory,     \* useState([]): sequence of [birdType, points]
    size,           \* <<clientWidth, clientHeight>> of the play area, in px
    heap,           \* the BirdPosition objects, by reference
    birdsRef,       \* the active list: sequence of references
    birdPoolRef,    \* the free list: sequence of references
    spatialHashRef, \* Map<cellKey, Set<bird>> as a set of <<key, reference>>
    cursorPosRef,   \* <<x, y>> of the bat, in tenths of a px
    handModeEnabled,\* useState(false)
    spriteSheetsRef,\* the sprite keys whose image has loaded
    address,        \* useAccount().address, NoAddress when not connected
    saveCalls,      \* the arguments of the round's saveGameData calls (history)
    resizes,        \* size changes since the screen was mounted (history)
    spawned,        \* createBird calls of the round that added a target (history)
    lifeHits,       \* per object: flying -> hit transitions since its spawn (history)
    scored,         \* catalog points of the targets turned to hit this round (history)
    ticks,          \* firings of the round timer in this round (history)
    currentScreen,  \* Index useState('start'): "start", "game" or "leaderboard"
    hitCalls,       \* recordHitImmediate: [pending, toasts] (see NoCalls)
    framePending,   \* a requestAnimationFrame(gameLoop) callback is pending
    sched,          \* the callbacks set and the refs to them (see NoSched)
    flockTimers,    \* pending setTimeout callbacks of createFlock: sequence of [side, y]
    cursorAnimRef,  \* [isHitting, hitFrame, hitTimer], hitTimer in ms
    floatingPointsRef, \* sequence of [points, x, y, opacity], opacity in thousandths
    hitService,     \* the HitService singleton and its calls in progress (see NoService)
    handView        \* the refs of the mounted HandTrackingView (see NewView)

vars == <<seconds, gameOver, gameStarted, countdown, hitHistory, size, heap,
          birdsRef, birdPoolRef, spatialHashRef, cursorPosRef,
          handModeEnabled, spriteSheetsRef, address, saveCalls, resizes,
          spawned, lifeHits, scored, ticks, currentScreen, hitCalls,
          framePending, sched,
          flockTimers, cursorAnimRef, floatingPointsRef, hitService, handView>>

\* Index renders the game screen only while currentScreen === 'game'
mounted == currentScreen = "game"

-----------------------------------------------------------------------------
(* Bounds of the model *)

\* BirdPosition objects the model allocates (active + pooled)
MaxBirds == 2
\* createBird calls that add a target, over one run
MaxSpawns == 2
\* changes of the play-area size, while the screen is mounted
MaxResizes == 1

\* wallet changes are followed until a round has MaxSaves hand-offs
MaxSaves == 2

(* Program constants *)

\* tenths of a px per px: gravity = 0.1 px per frame is one unit
Unit == 10
RoundSeconds == 60
StartCountdown == 3
BaseHitRadius == 32
BaseSpawnDistance == 100
BaseWidth == 896
BaseHeight == 504
OutMargin == 150
FallMargin == 100
HitVelocityY == 2

Refs == 1 .. MaxBirds
NoKey == <<>>
NoRef == 0

Max(a, b) == IF a >= b THEN a ELSE b
Min(a, b) == IF a <= b THEN a ELSE b
Sgn(a) == IF a > 0 THEN 1 ELSE IF a < 0 THEN -1 ELSE 0

-----------------------------------------------------------------------------
(* The catalog: birdTypes and getRandomBird *)

Species == {"Bee", "Butterfly", "Fly", "Ava"}

Points(name) ==
    CASE name = "Bee" -> 1
      [] name = "Butterfly" -> 2
      [] name = "Fly" -> 5
      [] name = "Ava" -> 10

\* random is Math.random() in hundredths
\* mutation: a draw of exactly 0.60 still gives a Bee
getRandomBird_InclusiveBound(random) ==
    IF random <= 60 THEN "Bee"
    ELSE IF random < 85 THEN "Butterfly"
    ELSE IF random < 95 THEN "Fly"
    ELSE "Ava"

getRandomBird(random) ==
    IF random < 60 THEN "Bee"
    ELSE IF random < 85 THEN "Butterfly"
    ELSE IF random < 95 THEN "Fly"
    ELSE "Ava"

-----------------------------------------------------------------------------
(* Geometry *)

\* gameContainerRef.current: the play area is rendered only while the
\* game-over screen is not
ContainerMounted == ~gameOver

\* getScaledSize(baseSize), in tenths of a px
getScaledSize(baseSize) ==
    IF ~ContainerMounted THEN baseSize * Unit
    ELSE LET w == size[1]
             h == size[2]
             scaled == IF w * BaseHeight <= h * BaseWidth
                       THEN (baseSize * Unit * w) \div BaseWidth
                       ELSE (baseSize * Unit * h) \div BaseHeight
         IN  Max(scaled, (baseSize * Unit) \div 2)

\* Math.max(1, hitRadius * 2) with hitRadius = getScaledSize(32)
HitRadius == getScaledSize(BaseHitRadius)
CellSize == Max(Unit, HitRadius * 2)

\* getCellKeyFromXY: `${ix},${iy}` as the pair <<ix, iy>>
getCellKeyFromXY(x, y, cellSize) == <<x \div cellSize, y \div cellSize>>

\* The simulation works on a record st of the four refs it mutates:
\* [heap, birds, pool, hash]

Bucket(hash, key) == {r \in Refs : <<key, r>> \in hash}

spatialInsert(st, b, cellSize) ==
    LET key == getCellKeyFromXY(st.heap[b].x, st.heap[b].y, cellSize)
    IN  [st EXCEPT !.heap[b].cellKey = key,
                   !.hash = @ \cup {<<key, b>>}]

spatialUpdateIfMoved(st, b, cellSize) ==
    LET nextKey == getCellKeyFromXY(st.heap[b].x, st.heap[b].y, cellSize)
        prevKey == st.heap[b].cellKey
    IN  IF prevKey = nextKey THEN st
        ELSE [st EXCEPT !.heap[b].cellKey = nextKey,
                        !.hash = (IF prevKey # NoKey THEN @ \ {<<prevKey, b>>} ELSE @)
                                 \cup {<<nextKey, b>>}]

\* mutation: the instance stays in its bucket
spatialRemove_KeepsBucket(st, b) ==
    [st EXCEPT !.heap[b].cellKey = NoKey]

spatialRemove(st, b) ==
    LET key == st.heap[b].cellKey
    IN  IF key = NoKey THEN st
        ELSE [st EXCEPT !.heap[b].cellKey = NoKey,
                        !.hash = @ \ {<<key, b>>}]

\* the references of a sequence, and a set of references in reference order
Range(s) == {s[i] : i \in 1 .. Len(s)}

RECURSIVE InOrder(_)
InOrder(S) ==
    IF S = {} THEN <<>>
    ELSE LET m == CHOOSE r \in S : \A q \in S : r <= q
         IN  <<m>> \o InOrder(S \ {m})

\* queryNearbyBirds(x, y, radius): the flying targets of the 3x3 block of
\* cells around the query cell, in scan order (dy outer, dx inner); k counts
\* the nine cells.  A bucket (a Set, iterated in insertion order by the code)
\* is iterated in reference order.
RECURSIVE ScanCells(_, _, _, _, _)
ScanCells(hash, hp, ix, iy, k) ==
    IF k > 9 THEN <<>>
    ELSE LET key == <<ix + ((k - 1) % 3) - 1, iy + ((k - 1) \div 3) - 1>>
         IN  InOrder({b \in Bucket(hash, key) : hp[b].status = "flying"})
             \o ScanCells(hash, hp, ix, iy, k + 1)

queryNearbyBirds(hash, hp, x, y, radius) ==
    LET cellSize == Max(Unit, radius * 2)
    IN  ScanCells(hash, hp, x \div cellSize, y \div cellSize, 1)

-----------------------------------------------------------------------------
(* Targets *)

\* A BirdPosition object.  animation.lastFrameTime holds who took the
\* timestamp: createBird ("spawn") or drawBird ("draw").
NewBird ==
    [id |-> 0, bird |-> "Bee", x |-> 0, y |-> 0, velocityX |-> 0,
     velocityY |-> 0, direction |-> "left", initialY |-> 0,
     status |-> "flying", currentFrame |-> 0, lastFrameTime |-> "spawn",
     active |-> FALSE, cellKey |-> NoKey, velocityNaN |-> FALSE, speed |-> 0]

\* The model's speed, in tenths of a px per frame.  The code draws speed in
\* [1.5, 4) px per frame and scales the unit vector to the target point by
\* it; the model moves a target by Speed along each axis on which the
\* target point differs from the spawn point (one of eight directions).
Speed == 2000

Velocity(d) == Sgn(d) * Speed

\* createBird's speed, in thousandths of a px per frame, which the model
\* keeps beside the velocity: baseSpeed = 1.5 + (1 - seconds / 60) * 1.5 and
\* speed = baseSpeed + Math.random() * 1.0, for the seconds the createBird
\* closure holds and a draw rv in hundredths
SpawnSpeed(secs, rv) ==
    1500 + (1500 * (RoundSeconds - secs)) \div RoundSeconds + 10 * rv

\* Math.random() * extent for a draw r in hundredths, in tenths of a px
Scale(r, extent) == (r * extent * Unit) \div 100

\* createBird: the spawn point and the target point by side.  rs and rt are
\* the two Math.random() draws of the side's case.
SpawnPoint(side, rs, rt, yOpt) ==
    LET w == size[1] * Unit
        h == size[2] * Unit
        spawnDistance == Min(getScaledSize(BaseSpawnDistance),
                             (Min(size[1], size[2]) * Unit) \div 5)
        ClampY(v) == Max(spawnDistance, Min(h - spawnDistance, v))
        ClampX(v) == Max(spawnDistance, Min(w - spawnDistance, v))
        y0 == IF yOpt = NoKey THEN Scale(rs, size[2]) ELSE yOpt[1]
    IN  CASE side = 0 -> [x |-> -spawnDistance, y |-> ClampY(y0),
                          targetX |-> w + spawnDistance,
                          targetY |-> ClampY(Scale(rt, size[2]))]
          [] side = 1 -> [x |-> w + spawnDistance, y |-> ClampY(y0),
                          targetX |-> -spawnDistance,
                          targetY |-> ClampY(Scale(rt, size[2]))]
          [] side = 2 -> [x |-> ClampX(Scale(rs, size[1])), y |-> -spawnDistance,
                          targetX |-> ClampX(Scale(rt, size[1])),
                          targetY |-> h + spawnDistance]
          [] side = 3 -> [x |-> ClampX(Scale(rs, size[1])), y |-> h + spawnDistance,
                          targetX |-> ClampX(Scale(rt, size[1])),
                          targetY |-> -spawnDistance]

\* createBird from "Reuse from pool if available" on: acquire an instance,
\* reset its fields, push it on the active list, insert it in the grid.
\* The pool is a stack (pop); a fresh object takes the lowest free reference.
\* mutation: the pool keeps the instance it hands out
Acquire_KeepsPooled(st) ==
    IF Len(st.pool) > 0
    THEN [ref |-> st.pool[Len(st.pool)], st |-> st]
    ELSE LET fresh == CHOOSE r \in Refs :
                         /\ r \notin Range(st.birds)
                         /\ \A q \in Refs : q \notin Range(st.birds) => r <= q
         IN  [ref |-> fresh, st |-> [st EXCEPT !.heap[fresh] = NewBird]]

Acquire(st) ==
    IF Len(st.pool) > 0
    THEN [ref |-> st.pool[Len(st.pool)],
          st |-> [st EXCEPT !.pool = SubSeq(@, 1, Len(@) - 1)]]
    ELSE LET fresh == CHOOSE r \in Refs :
                         /\ r \notin Range(st.birds)
                         /\ \A q \in Refs : q \notin Range(st.birds) => r <= q
         IN  [ref |-> fresh, st |-> [st EXCEPT !.heap[fresh] = NewBird]]

\* dx / distance with distance 0: the velocity is NaN
ZeroDistance(p) == p.targetX = p.x /\ p.targetY = p.y

\* mutation: status and animation survive the reuse
ResetFields_KeepsStatus(old, id, birdType, p) ==
    [old EXCEPT !.id = id,
                !.bird = birdType,
                !.x = p.x,
                !.y = p.y,
                !.velocityX = Velocity(p.targetX - p.x),
                !.velocityY = Velocity(p.targetY - p.y),
                !.direction = IF Velocity(p.targetX - p.x) > 0 THEN "right" ELSE "left",
                !.initialY = p.y,
                !.active = TRUE,
                !.cellKey = NoKey,
                !.velocityNaN = ZeroDistance(p),
                !.speed = p.speed]

ResetFields(old, id, birdType, p) ==
    [old EXCEPT !.id = id,
                !.bird = birdType,
                !.x = p.x,
                !.y = p.y,
                !.velocityX = Velocity(p.targetX - p.x),
                !.velocityY = Velocity(p.targetY - p.y),
                !.direction = IF Velocity(p.targetX - p.x) > 0 THEN "right" ELSE "left",
                !.initialY = p.y,
                !.status = "flying",
                !.currentFrame = 0,
                !.lastFrameTime = "spawn",
                !.active = TRUE,
                !.cellKey = NoKey,
                !.velocityNaN = ZeroDistance(p),
                !.speed = p.speed]

createBird(st, id, birdType, p) ==
    LET a == Acquire(st)
        st1 == [a.st EXCEPT !.heap[a.ref] = ResetFields(@, id, birdType, p),
                            !.birds = Append(@, a.ref)]
    IN  spatialInsert(st1, a.ref, CellSize)

-----------------------------------------------------------------------------
(* The simulation step of gameLoop *)

Abs(a) == IF a < 0 THEN -a ELSE a

\* Math.sin(x * waveFrequency) * waveAmplitude * 20 with waveFrequency 0.03
\* and waveAmplitude 1.2, in tenths of a px, for x in tenths of a px.  The
\* angle is 3 mrad per tenth of a px; the sine of an angle t in [0, pi] is
\* taken as 16 t (pi - t) / (5 pi^2 - 4 t (pi - t)), which is within 0.002
\* of it, so the wave is within a tenth of a px of the code's.  (Numerator
\* and denominator are both divided by 16 to stay within 32 bits.)
PiMrad == 3142
WaveTenths == 240

HalfWave(t) == (WaveTenths * (t * (PiMrad - t)))
               \div ((5 * PiMrad * PiMrad - 4 * t * (PiMrad - t)) \div 16)

Wave(x) ==
    LET t == (3 * x) % (2 * PiMrad)
    IN  IF t < PiMrad THEN HalfWave(t) ELSE -HalfWave(t - PiMrad)

\* Is (newX, newY) within the off-bounds margins of the play area?
\* mutation: no test of the lower edge
InBounds_NoLowerEdge(newX, newY, width, height) ==
    /\ newX >= -(OutMargin * Unit)
    /\ newX <= width + OutMargin * Unit
    /\ newY >= -(OutMargin * Unit)

InBounds(newX, newY, width, height) ==
    /\ newX >= -(OutMargin * Unit)
    /\ newX <= width + OutMargin * Unit
    /\ newY >= -(OutMargin * Unit)
    /\ newY <= height + OutMargin * Unit

\* retirement: spatialRemove, active = false, push on the pool, swap-remove
\* from the active list at index i (1-based)
Retire(st, i) ==
    LET b == st.birds[i]
        st1 == spatialRemove(st, b)
        n == Len(st1.birds)
        lastRef == st1.birds[n]
        popped == SubSeq(st1.birds, 1, n - 1)
    IN  [st1 EXCEPT !.heap[b].active = FALSE,
                    !.pool = Append(@, b),
                    !.birds = IF i <= Len(popped)
                              THEN [popped EXCEPT ![i] = lastRef]
                              ELSE popped]

\* The next position of a flying target; finite is FALSE when the Butterfly
\* path divides by a zero velocityX (the code gets an infinity or a NaN,
\* which fails every comparison of the bounds test).
NextFlying(bd, jitter) ==
    LET stepX == bd.x + bd.velocityX
        stepY == bd.y + bd.velocityY
    IN  IF bd.velocityNaN
        THEN [x |-> stepX, y |-> stepY, finite |-> FALSE]
        ELSE IF bd.bird = "Butterfly"
        THEN IF bd.velocityX = 0
             THEN [x |-> stepX, y |-> 0, finite |-> FALSE]
             ELSE [x |-> stepX,
                   y |-> bd.initialY
                         + (bd.velocityY * bd.x * Sgn(bd.velocityX)) \div Abs(bd.velocityX)
                         + Wave(bd.x),
                   finite |-> TRUE]
        ELSE IF bd.bird = "Bee"
        THEN [x |-> stepX + jitter, y |-> stepY, finite |-> TRUE]
        ELSE [x |-> stepX, y |-> stepY, finite |-> TRUE]

\* One iteration of the for loop at index i, for a hit target
\* mutation: a hit target gains no velocity and does not move
StepHit_Hovers(st, i, cellSize, height) ==
    LET b == st.birds[i]
        st2 == spatialUpdateIfMoved(st, b, cellSize)
    IN  IF st2.heap[b].y <= height + FallMargin * Unit
        THEN [st |-> st2, i |-> i + 1]
        ELSE [st |-> Retire(st2, i), i |-> i]

StepHit(st, i, cellSize, height) ==
    LET b == st.birds[i]
        vy == st.heap[b].velocityY + 1
        st1 == [st EXCEPT !.heap[b].velocityY = vy,
                          !.heap[b].y = @ + vy]
        st2 == spatialUpdateIfMoved(st1, b, cellSize)
    IN  IF st2.heap[b].y <= height + FallMargin * Unit
        THEN [st |-> st2, i |-> i + 1]
        ELSE [st |-> Retire(st2, i), i |-> i]

\* One iteration of the for loop at index i, for a flying target
StepFlying(st, i, cellSize, width, height, jitter) ==
    LET b == st.birds[i]
        n == NextFlying(st.heap[b], jitter)
    IN  IF n.finite /\ InBounds(n.x, n.y, width, height)
        THEN [st |-> spatialUpdateIfMoved(
                         [st EXCEPT !.heap[b].x = n.x, !.heap[b].y = n.y],
                         b, cellSize),
              i |-> i + 1]
        ELSE [st |-> Retire(st, i), i |-> i]

\* for (let i = 0; i < birdsRef.current.length; ) { ... }, 1-based
\* mutation: the index advances after a retirement too
RECURSIVE SimLoop_SkipsSwapped(_, _, _, _, _, _)
SimLoop_SkipsSwapped(st, i, cellSize, width, height, jit) ==
    IF i > Len(st.birds) THEN st
    ELSE LET b == st.birds[i]
             r == IF st.heap[b].status = "hit"
                  THEN StepHit(st, i, cellSize, height)
                  ELSE StepFlying(st, i, cellSize, width, height, jit[b])
         IN  SimLoop_SkipsSwapped(r.st, i + 1, cellSize, width, height, jit)

\* the state and the index a step leaves are bound once (q) for the rest
\* of the loop
RECURSIVE SimLoop(_, _, _, _, _, _)
SimLoop(st, i, cellSize, width, height, jit) ==
    IF i > Len(st.birds) THEN st
    ELSE LET b == st.birds[i]
             r == IF st.heap[b].status = "hit"
                  THEN StepHit(st, i, cellSize, height)
                  ELSE StepFlying(st, i, cellSize, width, height, jit[b])
         IN  CHOOSE out \in {SimLoop(q.st, q.i, cellSize, width, height, jit) :
                              q \in {r}} : TRUE

-----------------------------------------------------------------------------
(* The hit resolver: catchBird and the candidate loop of the triggers *)

\* birdsRef.current.find(b => b.id === birdId): the first active target
\* with that id, NoRef when there is none
RECURSIVE FindById(_, _, _, _)
FindById(birds, hp, birdId, i) ==
    IF i > Len(birds) THEN NoRef
    ELSE IF hp[birds[i]].id = birdId THEN birds[i]
    ELSE FindById(birds, hp, birdId, i + 1)

\* catchBird up to its first await, on a record
\* cs = [heap, hist, lifeHits, scored, floating, calls]
\* opacity 1 of a new floating indicator, in thousandths; the rise in px
\* and the fade in thousandths of a floating indicator per second
FullOpacity == 1000
RisePerSecond == 350
FadePerSecond == 1600

NoAddress == "none"

\* The recordHitImmediate calls of catchBird.  pending: some call has been
\* made whose promise has not settled; toasts: the kinds of toast the
\* settled calls have raised ("recorded" for success, "failed" for a
\* failure result or a rejection).
NoCalls == [pending |-> FALSE, toasts |-> {}]

\* mutation: no test of the status
catchBird_NoStatusTest(cs, birds, birdId) ==
    LET b == FindById(birds, cs.heap, birdId, 1)
    IN  IF b # NoRef
        THEN [cs EXCEPT !.hist = Append(@, [birdType |-> cs.heap[b].bird,
                                            points |-> Points(cs.heap[b].bird)]),
                        !.heap[b].status = "hit",
                        !.heap[b].velocityX = 0,
                        !.heap[b].velocityY = HitVelocityY * Unit,
                        !.heap[b].velocityNaN = FALSE,
                        !.floating = Append(@, [points |-> Points(cs.heap[b].bird),
                                                x |-> cs.heap[b].x,
                                                y |-> cs.heap[b].y,
                                                opacity |-> FullOpacity]),
                        !.lifeHits[b] = @ + 1,
                        !.scored = [points |-> @.points + Points(cs.heap[b].bird),
                                    count |-> @.count + 1],
                        !.calls = IF address # NoAddress
                                  THEN [@ EXCEPT !.pending = TRUE]
                                  ELSE @]
        ELSE cs

\* mutation: the new entry is put in front of the history
catchBird_Prepends(cs, birds, birdId) ==
    LET b == FindById(birds, cs.heap, birdId, 1)
    IN  IF b # NoRef /\ cs.heap[b].status = "flying"
        THEN [cs EXCEPT !.hist = <<[birdType |-> cs.heap[b].bird,
                                    points |-> Points(cs.heap[b].bird)]>> \o @,
                        !.heap[b].status = "hit",
                        !.heap[b].velocityX = 0,
                        !.heap[b].velocityY = HitVelocityY * Unit,
                        !.heap[b].velocityNaN = FALSE,
                        !.floating = Append(@, [points |-> Points(cs.heap[b].bird),
                                                x |-> cs.heap[b].x,
                                                y |-> cs.heap[b].y,
                                                opacity |-> FullOpacity]),
                        !.lifeHits[b] = @ + 1,
                        !.scored = [points |-> @.points + Points(cs.heap[b].bird),
                                    count |-> @.count + 1],
                        !.calls = IF address # NoAddress
                                  THEN [@ EXCEPT !.pending = TRUE]
                                  ELSE @]
        ELSE cs

\* mutation: no floating indicator
catchBird_NoIndicator(cs, birds, birdId) ==
    LET b == FindById(birds, cs.heap, birdId, 1)
    IN  IF b # NoRef /\ cs.heap[b].status = "flying"
        THEN [cs EXCEPT !.hist = Append(@, [birdType |-> cs.heap[b].bird,
                                            points |-> Points(cs.heap[b].bird)]),
                        !.heap[b].status = "hit",
                        !.heap[b].velocityX = 0,
                        !.heap[b].velocityY = HitVelocityY * Unit,
                        !.heap[b].velocityNaN = FALSE,
                        !.lifeHits[b] = @ + 1,
                        !.scored = [points |-> @.points + Points(cs.heap[b].bird),
                                    count |-> @.count + 1],
                        !.calls = IF address # NoAddress
                                  THEN [@ EXCEPT !.pending = TRUE]
                                  ELSE @]
        ELSE cs

catchBird(cs, birds, birdId) ==
    LET b == FindById(birds, cs.heap, birdId, 1)
    IN  IF b # NoRef /\ cs.heap[b].status = "flying"
        THEN [cs EXCEPT !.hist = Append(@, [birdType |-> cs.heap[b].bird,
                                            points |-> Points(cs.heap[b].bird)]),
                        !.heap[b].status = "hit",
                        !.heap[b].velocityX = 0,
                        !.heap[b].velocityY = HitVelocityY * Unit,
                        !.heap[b].velocityNaN = FALSE,
                        !.floating = Append(@, [points |-> Points(cs.heap[b].bird),
                                                x |-> cs.heap[b].x,
                                                y |-> cs.heap[b].y,
                                                opacity |-> FullOpacity]),
                        !.lifeHits[b] = @ + 1,
                        !.scored = [points |-> @.points + Points(cs.heap[b].bird),
                                    count |-> @.count + 1],
                        !.calls = IF address # NoAddress
                                  THEN [@ EXCEPT !.pending = TRUE]
                                  ELSE @]
        ELSE cs

\* dx * dx + dy * dy < r2
InRadius(bd, x, y, radius) ==
    (x - bd.x) * (x - bd.x) + (y - bd.y) * (y - bd.y) < radius * radius

\* for (let i = 0; i < candidates.length; i++) { ... catchBird(bird.id) }
RECURSIVE ResolveLoop(_, _, _, _, _, _, _)
ResolveLoop(cs, birds, candidates, i, x, y, radius) ==
    IF i > Len(candidates) THEN cs
    ELSE LET bd == cs.heap[candidates[i]]
             cs1 == IF InRadius(bd, x, y, radius)
                    THEN catchBird(cs, birds, bd.id)
                    ELSE cs
         IN  ResolveLoop(cs1, birds, candidates, i + 1, x, y, radius)

\* the collision check shared by handleGameAreaClick and onPinch
Resolve(x, y) ==
    LET radius == HitRadius
        candidates == queryNearbyBirds(spatialHashRef, heap, x, y, radius)
    IN  ResolveLoop([heap |-> heap, hist |-> hitHistory,
                     lifeHits |-> lifeHits, scored |-> scored,
                     floating |-> floatingPointsRef, calls |-> hitCalls],
                    birdsRef, candidates, 1, x, y, radius)

-----------------------------------------------------------------------------
(* Derived values and effects of the component *)

\* hitHistory.reduce((sum, hit) => sum + hit.points, 0)
RECURSIVE SumPoints(_)
SumPoints(hist) ==
    IF hist = <<>> THEN 0
    ELSE hist[1].points + SumPoints(Tail(hist))

\* mutation: the score counts the hits
Score_CountsHits(hist) == Len(hist)

Score(hist) == SumPoints(hist)
Hits(hist) == Len(hist)

\* mutation: no test of the hit history
SaveEffect_NoHitsTest(over, hist, addr, secs) ==
    IF <<over, hist, addr, secs>> # <<gameOver, hitHistory, address, seconds>>
       /\ over /\ addr # NoAddress
    THEN Append(saveCalls, [hostAddress |-> addr,
                            score |-> Score(hist),
                            hits |-> Hits(hist),
                            hitHistory |-> hist,
                            durationSec |-> RoundSeconds - secs])
    ELSE saveCalls

\* The saveGameData effect.  It runs after a commit that changed one of
\* its dependencies [gameOver, hitHistory, address, score, hits, seconds];
\* over, hist, addr, secs are the committed values.
SaveEffect(over, hist, addr, secs) ==
    IF <<over, hist, addr, secs>> # <<gameOver, hitHistory, address, seconds>>
       /\ over /\ Len(hist) > 0 /\ addr # NoAddress
    THEN Append(saveCalls, [hostAddress |-> addr,
                            score |-> Score(hist),
                            hits |-> Hits(hist),
                            hitHistory |-> hist,
                            durationSec |-> RoundSeconds - secs])
    ELSE saveCalls

-----------------------------------------------------------------------------
(* Inputs of the model *)

\* the play-area sizes <<clientWidth, clientHeight>>: the full size of the
\* layout (max-w-4xl, aspect 16:9) and a narrower window
Sizes == {<<896, 504>>, <<560, 315>>}

\* Math.random() draws, in hundredths: for spawn and target coordinates,
\* and for the species
RandCoord == {50}
RandSpecies == {10, 70}

\* the ids Math.random().toString(36).substring(7) can give
Ids == {1, 2}

\* (Math.random() - 0.5) * 3, in tenths of a px
Jitters == {14}

\* trigger points in the play area, in tenths of a px
TriggerPoints == {<<4480, 3000>>, <<4400, 3040>>}

\* createBird calls are explored while at most SpawnWindow seconds remain
SpawnWindow == 1

Addresses == {NoAddress, "0xA", "0xB"}

\* ms between two frame callbacks
FrameDts == {700}

-----------------------------------------------------------------------------
(* The schedulers: requestAnimationFrame, the two intervals, the spawn     *)
(* timeout, and the effects that set and clear them                        *)

\* sched holds, for each scheduler, the number of callbacks that are set
\* (not cancelled and, for a frame or a timeout, not yet called), and what
\* the ref to the handle holds: "null", "live" (the handle of a callback
\* that is set) or "stale" (the handle of a callback that was called or
\* cleared).  The countdown effect keeps its handle in a const of its own
\* closure.
NoSched ==
    [frames |-> 0, gameLoopRef |-> "null", countdowns |-> 0,
     timers |-> 0, intervalRef |-> "null",
     spawns |-> 0, spawnTimeoutRef |-> "null"]

\* after the effects of the first render of a game screen: the frame
\* callback and the countdown interval are set
MountSched ==
    [NoSched EXCEPT !.frames = 1, !.gameLoopRef = "live", !.countdowns = 1]

\* the render of the game screen, as far as the deps of the scheduling
\* effects go (gameLoop, createBird and createFlock change with
\* gameStarted, gameOver and seconds only)
Render ==
    [mounted |-> mounted, gameStarted |-> gameStarted, gameOver |-> gameOver,
     seconds |-> seconds, countdown |-> countdown]

IsRunning(r) == r.mounted /\ r.gameStarted /\ ~r.gameOver

\* useEffect(..., [countdown]): the cleanup clears the interval of its own
\* run, then the effect sets a new one
CountdownEffect(s, was, now) ==
    IF was.mounted = now.mounted /\ was.countdown = now.countdown THEN s
    ELSE LET cleared == IF was.mounted THEN s.countdowns - 1 ELSE s.countdowns
         IN  [s EXCEPT !.countdowns = IF now.mounted THEN cleared + 1
                                      ELSE cleared]

\* useEffect(..., [gameStarted, gameOver]) of the round timer: a run that
\* set the interval returned a cleanup, which clears intervalRef.current
TimerEffect(s, was, now) ==
    IF /\ was.mounted = now.mounted
       /\ was.gameStarted = now.gameStarted /\ was.gameOver = now.gameOver
    THEN s
    ELSE LET c == IF IsRunning(was) /\ s.intervalRef # "null"
                  THEN [s EXCEPT !.timers = IF s.intervalRef = "live"
                                            THEN @ - 1 ELSE @,
                                 !.intervalRef = "stale"]
                  ELSE s
         IN  IF IsRunning(now)
             THEN [c EXCEPT !.timers = @ + 1, !.intervalRef = "live"]
             ELSE c

\* useEffect(..., [gameStarted, gameOver, seconds, createBird, createFlock])
\* of the spawn loop: the cleanup clears spawnTimeoutRef.current, and the
\* effect calls spawnLoop, which sets the next timeout (the target or flock
\* that this call of spawnLoop creates is one of the spawn steps)
SpawnEffect(s, was, now) ==
    IF /\ was.mounted = now.mounted
       /\ was.gameStarted = now.gameStarted /\ was.gameOver = now.gameOver
       /\ was.seconds = now.seconds
    THEN s
    ELSE LET c == IF IsRunning(was) /\ s.spawnTimeoutRef # "null"
                  THEN [s EXCEPT !.spawns = IF s.spawnTimeoutRef = "live"
                                            THEN @ - 1 ELSE @,
                                 !.spawnTimeoutRef = "stale"]
                  ELSE s
         IN  IF IsRunning(now)
             THEN [c EXCEPT !.spawns = @ + 1, !.spawnTimeoutRef = "live"]
             ELSE c

\* useEffect(..., [gameLoop]): the cleanup cancels gameLoopRef.current and
\* sets it to null, the effect requests a frame when the ref is null
\* mutation: the cleanup does not cancel the frame
LoopEffect_NoCancel(s, was, now) ==
    IF /\ was.mounted = now.mounted
       /\ was.gameStarted = now.gameStarted /\ was.gameOver = now.gameOver
    THEN s
    ELSE LET c == IF was.mounted /\ s.gameLoopRef # "null"
                  THEN [s EXCEPT !.gameLoopRef = "null"]
                  ELSE s
         IN  IF now.mounted /\ c.gameLoopRef = "null"
             THEN [c EXCEPT !.frames = @ + 1, !.gameLoopRef = "live"]
             ELSE c

LoopEffect(s, was, now) ==
    IF /\ was.mounted = now.mounted
       /\ was.gameStarted = now.gameStarted /\ was.gameOver = now.gameOver
    THEN s
    ELSE LET c == IF was.mounted /\ s.gameLoopRef # "null"
                  THEN [s EXCEPT !.frames = IF s.gameLoopRef = "live"
                                            THEN @ - 1 ELSE @,
                                 !.gameLoopRef = "null"]
                  ELSE s
         IN  IF now.mounted /\ c.gameLoopRef = "null"
             THEN [c EXCEPT !.frames = @ + 1, !.gameLoopRef = "live"]
             ELSE c

\* a new game screen has refs of its own
NewRefs(s) ==
    [s EXCEPT !.gameLoopRef = "null", !.intervalRef = "null",
              !.spawnTimeoutRef = "null"]

\* the effects of the commit that takes the render `was` to the render `now`
Effects(s, was, now) ==
    LoopEffect(SpawnEffect(TimerEffect(CountdownEffect(s, was, now),
                                       was, now), was, now), was, now)

\* the scheduling effects of the commit of a step
Commit == Effects(sched, Render, Render')

\* a frame callback is called; requested: it ran to its end, where it
\* requests the next frame.  Callbacks are called in the order they were
\* requested, so the one gameLoopRef holds is called when it is the only one.
FrameCalled(s, requested) ==
    LET called == [s EXCEPT !.frames = @ - 1,
                            !.gameLoopRef = IF s.frames = 1 /\ @ = "live"
                                            THEN "stale" ELSE @]
    IN  IF requested
        THEN [called EXCEPT !.frames = @ + 1, !.gameLoopRef = "live"]
        ELSE called

\* the spawn timeout is called: spawnLoop sets the next one
SpawnCalled(s) ==
    [s EXCEPT !.spawns = (@ - 1) + 1, !.spawnTimeoutRef = "live"]

-----------------------------------------------------------------------------
(* HitService (src/src/services/hitService.ts)                             *)
(*                                                                         *)
(* The singleton's fields, the activations of processQueue that are        *)
(* waiting at an await, and the recordHitWithRetry call in progress.  A    *)
(* step runs from one await to the next, as the single JavaScript thread   *)
(* does.  queued, submitted and results are histories.                     *)

\* the variables of the game screen
screenVars == <<seconds, gameOver, gameStarted, countdown, hitHistory, size, heap,
                birdsRef, birdPoolRef, spatialHashRef, cursorPosRef,
                handModeEnabled, spriteSheetsRef, address, saveCalls, resizes,
                spawned, lifeHits, scored, ticks, currentScreen, hitCalls,
                framePending, sched,
                flockTimers, cursorAnimRef, floatingPointsRef>>

\* queueHit calls explored, and the points of the hit data they pass
MaxQueued == 3
HitPoints == {1, 5}

\* the maxRetries arguments explored; 3 is the default
MaxRetries == 3
RetryLimits == 0 .. MaxRetries

\* how a relayer request ends: a 2xx response, another response, no response
Outcomes == {"ok", "http", "network"}

\* recordHit: every failure is caught and returned, none is thrown
recordHit(outcome) ==
    [thrown |-> FALSE,
     success |-> (outcome = "ok"),
     error |-> CASE outcome = "ok" -> "none"
                 [] outcome = "http" -> "Failed to record hit"
                 [] OTHER -> "Unknown error"]

NoRetry == [stage |-> "idle", maxRetries |-> 0, attempt |-> 0, calls |-> 0,
            failures |-> 0, result |-> "none"]

NoService == [queue |-> <<>>, isProcessing |-> FALSE, loops |-> <<>>,
              queued |-> <<>>, submitted |-> <<>>, results |-> <<>>,
              retry |-> NoRetry]

RemoveAt(s, i) == SubSeq(s, 1, i - 1) \o SubSeq(s, i + 1, Len(s))

\* the while loop of processQueue with isProcessing left set at its exit
whileLoop_KeepsProcessing(s, i) ==
    IF Len(s.queue) > 0
    THEN [s EXCEPT !.queue = Tail(@),
                   !.loops[i] = [stage |-> "recordHit", hitData |-> Head(s.queue)],
                   !.submitted = Append(@, Head(s.queue))]
    ELSE [s EXCEPT !.loops = RemoveAt(@, i)]

\* the while loop of processQueue, from its test to the next await or to the
\* end of the function, for the activation i
whileLoop(s, i) ==
    IF Len(s.queue) > 0
    THEN [s EXCEPT !.queue = Tail(@),
                   !.loops[i] = [stage |-> "recordHit", hitData |-> Head(s.queue)],
                   !.submitted = Append(@, Head(s.queue))]
    ELSE [s EXCEPT !.isProcessing = FALSE, !.loops = RemoveAt(@, i)]

processQueue(s) ==
    IF s.isProcessing \/ Len(s.queue) = 0
    THEN s
    ELSE whileLoop([s EXCEPT !.isProcessing = TRUE,
                             !.loops = Append(@, [stage |-> "entered", hitData |-> 0])],
                   Len(s.loops) + 1)

queueHit(hitData) ==
    /\ Len(hitService.queued) < MaxQueued
    /\ LET pushed == [hitService EXCEPT !.queue = Append(@, hitData),
                                        !.queued = Append(@, hitData)]
       IN  hitService' = IF ~pushed.isProcessing THEN processQueue(pushed) ELSE pushed
    /\ UNCHANGED <<screenVars, handView>>

\* the recordHit call of the activation i settles
RecordHitSettles(i, outcome) ==
    /\ i \in DOMAIN hitService.loops
    /\ hitService.loops[i].stage = "recordHit"
    /\ LET hitData == hitService.loops[i].hitData
           result == recordHit(outcome)
           seen == [hitService EXCEPT
                       !.results = Append(@, [hitData |-> hitData,
                                              success |-> result.success])]
       IN  hitService' =
              IF result.thrown
              THEN [seen EXCEPT !.queue = <<hitData>> \o @,
                                !.isProcessing = FALSE,
                                !.loops = RemoveAt(@, i)]
              ELSE [seen EXCEPT !.loops[i].stage = "delay"]
    /\ UNCHANGED <<screenVars, handView>>

\* the 200 ms timeout of the activation i fires
DelayElapsed(i) ==
    /\ i \in DOMAIN hitService.loops
    /\ hitService.loops[i].stage = "delay"
    /\ hitService' = whileLoop(hitService, i)
    /\ UNCHANGED <<screenVars, handView>>

\* the for loop of recordHitWithRetry run one attempt short
forLoop_OneShort(r) ==
    IF r.attempt < r.maxRetries
    THEN [r EXCEPT !.stage = "recordHit", !.calls = @ + 1]
    ELSE [r EXCEPT !.stage = "done", !.result = "Max retries exceeded"]

\* the for loop of recordHitWithRetry, from its test to the next await or
\* to the return
forLoop(r) ==
    IF r.attempt <= r.maxRetries
    THEN [r EXCEPT !.stage = "recordHit", !.calls = @ + 1]
    ELSE [r EXCEPT !.stage = "done", !.result = "Max retries exceeded"]

recordHitWithRetry(maxRetries) ==
    /\ hitService.retry.stage = "idle"
    /\ hitService' = [hitService EXCEPT
                         !.retry = forLoop([NoRetry EXCEPT !.maxRetries = maxRetries,
                                                           !.attempt = 1])]
    /\ UNCHANGED <<screenVars, handView>>

\* the recordHit call of the attempt settles
RetrySettles(outcome) ==
    /\ hitService.retry.stage = "recordHit"
    /\ LET r == hitService.retry
           result == recordHit(outcome)
       IN  hitService' = [hitService EXCEPT !.retry =
              IF result.thrown
              THEN [r EXCEPT !.stage = "done", !.result = "thrown"]
              ELSE IF result.success
              THEN [r EXCEPT !.stage = "done", !.result = "success"]
              ELSE IF r.attempt < r.maxRetries
              THEN [r EXCEPT !.stage = "backoff", !.failures = @ + 1]
              ELSE forLoop([r EXCEPT !.attempt = @ + 1, !.failures = @ + 1])]
    /\ UNCHANGED <<screenVars, handView>>

\* the timeout of 1000 * attempt ms fires
BackoffElapsed ==
    /\ hitService.retry.stage = "backoff"
    /\ hitService' = [hitService EXCEPT
                         !.retry = forLoop([@ EXCEPT !.attempt = @ + 1])]
    /\ UNCHANGED <<screenVars, handView>>

\* the caller takes the result of the call
RetryReturned ==
    /\ hitService.retry.stage = "done"
    /\ hitService' = [hitService EXCEPT !.retry = NoRetry]
    /\ UNCHANGED <<screenVars, handView>>

\* the debounce of the hand view, in ms (see OnResults), and the onPinch
\* calls explored
PinchDebounce == 120
MaxPinches == 3

\* the refs of a HandTrackingView that has just mounted: lastPinchAtRef is 0
\* and performance.now() is far beyond the debounce (sinceLast is capped
\* just above it); fired and lastFrame are histories of all views
NewView(v) == [pinchActiveRef |-> FALSE, sinceLast |-> PinchDebounce + 1,
               fired |-> v.fired, lastFrame |-> v.lastFrame]
NoView == [pinchActiveRef |-> FALSE, sinceLast |-> PinchDebounce + 1,
           fired |-> 0, lastFrame |-> "none"]

-----------------------------------------------------------------------------
(* The state after the game screen has mounted *)

\* cursorAnimRef when no hit animation runs
IdleCursor == [isHitting |-> FALSE, hitFrame |-> 0, hitTimer |-> 0]

\* cursorAnimRef as a click or a pinch sets it
HitCursor == [isHitting |-> TRUE, hitFrame |-> 0, hitTimer |-> 0]

Init ==
    /\ seconds = RoundSeconds
    /\ gameOver = FALSE
    /\ gameStarted = FALSE
    /\ countdown = StartCountdown
    /\ hitHistory = <<>>
    /\ size = <<896, 504>>
    /\ heap = [r \in Refs |-> NewBird]
    /\ birdsRef = <<>>
    /\ birdPoolRef = <<>>
    /\ spatialHashRef = {}
    /\ cursorPosRef = <<0, 0>>
    /\ handModeEnabled = FALSE
    /\ spriteSheetsRef = {}
    /\ address = "0xA"
    /\ saveCalls = <<>>
    /\ spawned = 0
    /\ resizes = 0
    /\ lifeHits = [r \in Refs |-> 0]
    /\ scored = [points |-> 0, count |-> 0]
    /\ ticks = 0
    /\ currentScreen = "game"
    /\ hitCalls = NoCalls
    /\ framePending = TRUE
    /\ sched = MountSched
    /\ flockTimers = <<>>
    /\ cursorAnimRef = IdleCursor
    /\ floatingPointsRef = <<>>
    /\ hitService = NoService
    /\ handView = NoView

simVars == <<heap, birdsRef, birdPoolRef, spatialHashRef>>
roundVars == <<seconds, gameOver, gameStarted, countdown>>
histVars == <<hitHistory, lifeHits, scored>>
envVars == <<spriteSheetsRef, resizes, ticks, currentScreen, flockTimers>>
fxVars == <<cursorAnimRef, floatingPointsRef>>

-----------------------------------------------------------------------------
(* Timers *)

\* the start countdown interval: it runs while the screen is mounted
\* mutation: the round starts one tick early
CountdownTick_StartsEarly ==
    /\ mounted
    /\ sched.countdowns > 0
    /\ IF countdown <= 2
       THEN countdown' = 0 /\ gameStarted' = TRUE
       ELSE countdown' = countdown - 1 /\ gameStarted' = gameStarted
    /\ framePending' = (framePending \/ gameStarted' # gameStarted)
    /\ UNCHANGED <<seconds, gameOver, histVars, size, hitService, handView, simVars, cursorPosRef,
                   handModeEnabled, envVars, fxVars, address, saveCalls, hitCalls, spawned>>
    /\ sched' = Commit

CountdownTick ==
    /\ mounted
    /\ sched.countdowns > 0
    /\ IF countdown <= 1
       THEN countdown' = 0 /\ gameStarted' = TRUE
       ELSE countdown' = countdown - 1 /\ gameStarted' = gameStarted
    /\ framePending' = (framePending \/ gameStarted' # gameStarted)
    /\ UNCHANGED <<seconds, gameOver, histVars, size, hitService, handView, simVars, cursorPosRef,
                   handModeEnabled, envVars, fxVars, address, saveCalls, hitCalls, spawned>>
    /\ sched' = Commit

\* the round timer interval: it exists while the round is running
\* mutation: the round ends one tick late
TimerTick_EndsLate ==
    /\ mounted /\ gameStarted /\ ~gameOver
    /\ sched.timers > 0
    /\ IF seconds <= 0
       THEN seconds' = 0 /\ gameOver' = TRUE
       ELSE seconds' = seconds - 1 /\ gameOver' = gameOver
    /\ saveCalls' = SaveEffect(gameOver', hitHistory, address, seconds')
    /\ UNCHANGED hitCalls
    /\ ticks' = ticks + 1
    /\ framePending' = (framePending \/ gameOver')
    /\ UNCHANGED <<gameStarted, countdown, histVars, size, hitService, handView, simVars, cursorPosRef,
                   handModeEnabled, spriteSheetsRef, resizes, currentScreen, flockTimers,
                   fxVars, address, spawned>>
    /\ sched' = Commit

TimerTick ==
    /\ mounted /\ gameStarted /\ ~gameOver
    /\ sched.timers > 0
    /\ IF seconds <= 1
       THEN seconds' = 0 /\ gameOver' = TRUE
       ELSE seconds' = seconds - 1 /\ gameOver' = gameOver
    /\ saveCalls' = SaveEffect(gameOver', hitHistory, address, seconds')
    /\ UNCHANGED hitCalls
    /\ ticks' = ticks + 1
    /\ framePending' = (framePending \/ gameOver')
    /\ UNCHANGED <<gameStarted, countdown, histVars, size, hitService, handView, simVars, cursorPosRef,
                   handModeEnabled, spriteSheetsRef, resizes, currentScreen, flockTimers,
                   fxVars, address, spawned>>
    /\ sched' = Commit

-----------------------------------------------------------------------------
(* The spawner *)

\* a createBird call of the spawn loop (flockOptions undefined) or of a
\* flock member (side 0 or 1)
AddBird(side, rs, rt, random, id, yOpt, secs, rv) ==
    /\ spawned < MaxSpawns
    /\ Len(birdPoolRef) > 0 \/ Len(birdsRef) < MaxBirds
    /\ LET p == SpawnPoint(side, rs, rt, yOpt)
           st == createBird([heap |-> heap, birds |-> birdsRef,
                             pool |-> birdPoolRef, hash |-> spatialHashRef],
                            id, getRandomBird(random),
                            [x |-> p.x, y |-> p.y, targetX |-> p.targetX,
                             targetY |-> p.targetY,
                             speed |-> SpawnSpeed(secs, rv)])
       IN  /\ heap' = st.heap
           /\ birdsRef' = st.birds
           /\ birdPoolRef' = st.pool
           /\ spatialHashRef' = st.hash
           /\ lifeHits' = [lifeHits EXCEPT ![st.birds[Len(st.birds)]] = 0]
    /\ spawned' = spawned + 1

\* createBird as the spawn loop calls it, with the speed draw rv
SpawnBirdAt(side, rs, rt, random, id, rv) ==
    /\ mounted
    /\ sched.spawns > 0
    /\ ~gameOver /\ gameStarted /\ ContainerMounted
    /\ AddBird(side, rs, rt, random, id, NoKey, seconds, rv)
    /\ UNCHANGED <<roundVars, hitHistory, scored, size, hitService, handView, cursorPosRef,
                   handModeEnabled, envVars, fxVars, framePending, address,
                   saveCalls, hitCalls>>
    /\ sched' = SpawnCalled(sched)

\* the Math.random() draw of the speed, in hundredths
SpeedDraws == {50}

SpawnBird(side, rs, rt, random, id) ==
    /\ seconds <= SpawnWindow
    /\ \E rv \in SpeedDraws : SpawnBirdAt(side, rs, rt, random, id, rv)

\* createFlock, called by the spawn loop: it schedules one createBird
\* timeout for each of its n members, all with the flock's side and y, and
\* with the createBird of this render, which holds this render's seconds
ScheduleFlock(side, y, n) ==
    /\ mounted
    /\ sched.spawns > 0
    /\ ~gameOver /\ gameStarted /\ ContainerMounted
    /\ flockTimers = <<>>
    /\ flockTimers' = [i \in 1 .. n |-> [side |-> side, y |-> y,
                                         seconds |-> seconds]]
    /\ UNCHANGED <<roundVars, histVars, size, hitService, handView, simVars, cursorPosRef,
                   handModeEnabled, spriteSheetsRef, resizes, ticks, currentScreen,
                   fxVars, framePending, address, saveCalls, hitCalls, spawned>>
    /\ sched' = SpawnCalled(sched)

CreateFlock(side, y, n) ==
    /\ seconds <= SpawnWindow
    /\ ScheduleFlock(side, y, n)

\* a timeout of createFlock fires: createBird as the render that scheduled
\* it closed over it, with gameStarted true, gameOver false and the seconds
\* of that render, so that only the test of gameContainerRef.current is live
FlockMember(rt, random, id, rv) ==
    /\ flockTimers # <<>>
    /\ flockTimers' = Tail(flockTimers)
    /\ IF mounted /\ ContainerMounted
       THEN AddBird(flockTimers[1].side, 0, rt, random, id,
                    <<flockTimers[1].y>>, flockTimers[1].seconds, rv)
       ELSE UNCHANGED <<simVars, lifeHits, spawned>>
    /\ UNCHANGED <<roundVars, hitHistory, scored, size, hitService, handView, cursorPosRef,
                   handModeEnabled, spriteSheetsRef, resizes, ticks, currentScreen,
                   fxVars, framePending, sched, address, saveCalls, hitCalls>>

-----------------------------------------------------------------------------
(* The frame callback *)

\* totalFrames of the sprite sheets
TotalFrames(name) ==
    CASE name = "Bee" -> 45
      [] name = "Butterfly" -> 35
      [] name = "Fly" -> 150
      [] name = "Ava" -> 150

\* drawBird: the animation frame advances when the sprite has loaded and
\* the frame interval has elapsed since lastFrameTime (elapsed)
drawBird(bd, elapsed) ==
    IF bd.bird \notin spriteSheetsRef THEN bd
    ELSE IF elapsed
    THEN [bd EXCEPT !.currentFrame = (@ + 1) % TotalFrames(bd.bird),
                    !.lastFrameTime = "draw"]
    ELSE bd

\* gameLoop: the simulation step and the drawing of the targets, only
\* while the round is running.  jit gives each Bee its jitter, adv says for
\* which targets the frame interval has elapsed.
gameLoop(jit, adv) ==
    IF gameStarted /\ ~gameOver
    THEN LET st0 == [heap |-> heap, birds |-> birdsRef,
                     pool |-> birdPoolRef, hash |-> spatialHashRef]
             sim == IF ContainerMounted
                    THEN SimLoop(st0, 1, CellSize, size[1] * Unit,
                                 size[2] * Unit, jit)
                    ELSE st0
         IN  CHOOSE out \in
                 {[st1 EXCEPT !.heap = [r \in Refs |->
                                          IF r \in Range(st1.birds)
                                          THEN drawBird(st1.heap[r], adv[r])
                                          ELSE st1.heap[r]]] :
                  st1 \in {sim}} : TRUE
    ELSE [heap |-> heap, birds |-> birdsRef,
          pool |-> birdPoolRef, hash |-> spatialHashRef]

\* the draws a frame can make: a jitter for each active flying Bee, an
\* elapsed frame interval for each active target whose sprite has loaded
FrameJitters ==
    {j \in [Refs -> Jitters \cup {0}] :
        \A r \in Refs :
            IF r \in Range(birdsRef) /\ heap[r].bird = "Bee"
               /\ heap[r].status = "flying"
            THEN j[r] \in Jitters
            ELSE j[r] = 0}

FrameElapsed ==
    {a \in [Refs -> BOOLEAN] :
        \A r \in Refs :
            (r \notin Range(birdsRef) \/ heap[r].bird \notin spriteSheetsRef)
                => a[r] = FALSE}

\* the hit animation of the bat: cursorAnimRef after a running frame that
\* comes dt ms after the last one
NextCursorAnim(anim, dt) ==
    IF ~anim.isHitting THEN anim
    ELSE LET timer == anim.hitTimer + dt
             newFrame == timer \div 100
         IN  IF newFrame >= 2 THEN IdleCursor
             ELSE [isHitting |-> TRUE, hitFrame |-> newFrame, hitTimer |-> timer]

\* the floating indicators after a running frame: they rise by 350 px and
\* fade by 1.6 per second, and those faded out are dropped
RECURSIVE NextFloating(_, _)
NextFloating(points, dt) ==
    IF points = <<>> THEN <<>>
    ELSE LET q == [points[1] EXCEPT !.y = @ - (RisePerSecond * Unit * dt) \div 1000,
                                    !.opacity = @ - (FadePerSecond * dt) \div 1000]
         IN  (IF q.opacity > 0 THEN <<q>> ELSE <<>>)
             \o NextFloating(Tail(points), dt)

\* a frame callback: without a canvas (the game-over screen has none) it
\* returns before it requests the next frame
Frame(jit, adv, dt) ==
    /\ mounted /\ framePending
    /\ sched.frames > 0
    /\ IF ContainerMounted
       THEN /\ \E st \in {gameLoop(jit, adv)} :
                   /\ heap' = st.heap
                   /\ birdsRef' = st.birds
                   /\ birdPoolRef' = st.pool
                   /\ spatialHashRef' = st.hash
            /\ IF gameStarted /\ ~gameOver
               THEN /\ cursorAnimRef' = NextCursorAnim(cursorAnimRef, dt)
                    /\ floatingPointsRef' = NextFloating(floatingPointsRef, dt)
               ELSE UNCHANGED fxVars
            /\ framePending' = TRUE
       ELSE /\ framePending' = FALSE
            /\ UNCHANGED <<simVars, fxVars>>
    /\ UNCHANGED <<roundVars, histVars, size, hitService, handView, cursorPosRef, handModeEnabled,
                   envVars, address, saveCalls, hitCalls, spawned>>
    /\ sched' = FrameCalled(sched, ContainerMounted)

GameLoop ==
    \E jit \in FrameJitters, adv \in FrameElapsed, dt \in FrameDts :
        Frame(jit, adv, dt)

\* img.onload of a sprite sheet
ImgLoad(key) ==
    /\ mounted
    /\ key \notin spriteSheetsRef
    /\ spriteSheetsRef' = spriteSheetsRef \cup {key}
    /\ UNCHANGED <<resizes, ticks, currentScreen, flockTimers, roundVars, histVars,
                   size, hitService, handView, simVars, cursorPosRef, handModeEnabled, fxVars,
                   framePending, sched, address, saveCalls, hitCalls, spawned>>

-----------------------------------------------------------------------------
(* Input handlers *)

\* a trigger resolved at (x, y): the state it leaves
Trigger(x, y) ==
    LET cs == Resolve(x, y)
    IN  /\ heap' = cs.heap
        /\ hitHistory' = cs.hist
        /\ lifeHits' = cs.lifeHits
        /\ scored' = cs.scored
        /\ floatingPointsRef' = cs.floating
        /\ saveCalls' = SaveEffect(gameOver, cs.hist, address, seconds)
        /\ hitCalls' = cs.calls

\* handleGameAreaClick: onClick of the play area
Click(p) ==
    /\ mounted /\ ContainerMounted
    /\ p[1] <= size[1] * Unit /\ p[2] <= size[2] * Unit
    /\ cursorAnimRef' = HitCursor
    /\ Trigger(p[1], p[2])
    /\ UNCHANGED <<roundVars, size, hitService, handView, birdsRef, birdPoolRef, spatialHashRef,
                   cursorPosRef, handModeEnabled, envVars, framePending, sched,
                   address, spawned>>

\* catchBird after `await hitService.recordHitImmediate(hitData)`: the
\* promise of a call settles with result.success, or with a failure result
\* or a rejection, and a toast is raised; other calls may remain pending.
\* The toast is shown by the app's toaster, on whatever screen.
\* mutation: a failed call takes the hit back out of the history
HitOutcome_RollsBack(kind, more) ==
    /\ hitCalls.pending
    /\ hitCalls' = [pending |-> more, toasts |-> hitCalls.toasts \cup {kind}]
    /\ hitHistory' = IF kind = "failed" /\ hitHistory # <<>>
                     THEN SubSeq(hitHistory, 1, Len(hitHistory) - 1)
                     ELSE hitHistory
    /\ UNCHANGED <<roundVars, lifeHits, scored, size, hitService, handView, simVars, cursorPosRef,
                   handModeEnabled, envVars, fxVars, framePending, sched, address,
                   saveCalls, spawned>>

HitOutcome(kind, more) ==
    /\ hitCalls.pending
    /\ hitCalls' = [pending |-> more, toasts |-> hitCalls.toasts \cup {kind}]
    /\ UNCHANGED <<roundVars, histVars, size, hitService, handView, simVars, cursorPosRef,
                   handModeEnabled, envVars, fxVars, framePending, sched, address,
                   saveCalls, spawned>>

\* the onPinch callback that GameScreen passes to the hand-tracking view
onPinch ==
    /\ IF ~gameStarted \/ gameOver
       THEN UNCHANGED <<heap, histVars, saveCalls, hitCalls, fxVars>>
       ELSE /\ cursorAnimRef' = HitCursor
            /\ Trigger(cursorPosRef[1], cursorPosRef[2])
    /\ UNCHANGED <<roundVars, size, hitService, birdsRef, birdPoolRef, spatialHashRef,
                   handModeEnabled, envVars, framePending, sched,
                   address, spawned>>

\* onPinch of the hand-tracking view, which is rendered with the play area
\* and enabled by hand mode
Pinch ==
    /\ mounted /\ ContainerMounted /\ handModeEnabled
    /\ onPinch
    /\ UNCHANGED <<cursorPosRef, handView>>

\* isPinching: the thumb and index tips closer than 0.45 palm widths;
\* hand is <<tipDist, palmWidth>> in hundredths of the frame
isPinching(hand) ==
    IF hand[2] = 0 THEN FALSE ELSE hand[1] * 100 < hand[2] * 45

\* hands.onResults with a primary hand, dt ms after the previous result of
\* this view (or after its start): the pinch edge test and its debounce,
\* then onHandData with the palm centre n as in HandData.  now is the time
\* since lastPinchAtRef as the test reads it; fired and lastFrame are
\* histories.
OnResults(hand, n, dt) ==
    /\ mounted /\ ContainerMounted /\ handModeEnabled
    /\ handView.fired < MaxPinches
    /\ LET pinched == isPinching(hand)
           now == Min(handView.sinceLast + dt, PinchDebounce + 1)
           edge == pinched # handView.pinchActiveRef
           fires == edge /\ pinched /\ now > PinchDebounce
       IN  /\ handView' = [pinchActiveRef |-> IF edge THEN pinched
                                             ELSE handView.pinchActiveRef,
                           sinceLast |-> IF fires THEN 0 ELSE now,
                           fired |-> IF fires THEN handView.fired + 1
                                     ELSE handView.fired,
                           lastFrame |-> IF pinched THEN "pinched" ELSE "open"]
           /\ IF fires
              THEN onPinch
              ELSE UNCHANGED <<roundVars, histVars, size, hitService, simVars,
                               handModeEnabled, envVars, fxVars, framePending,
                               sched, address, saveCalls, hitCalls, spawned>>
    /\ cursorPosRef' = <<Scale(n[1], size[1]), Scale(n[2], size[2])>>

\* handleMouseMove: onMouseMove of the play area
\* mutation: the mouse moves the cursor in hand mode too
MouseMove_IgnoresHandMode(p) ==
    /\ mounted /\ ContainerMounted
    /\ p[1] <= size[1] * Unit /\ p[2] <= size[2] * Unit
    /\ cursorPosRef' = p
    /\ UNCHANGED <<roundVars, histVars, size, hitService, handView, simVars, handModeEnabled,
                   envVars, fxVars, framePending, sched, address, saveCalls, hitCalls, spawned>>

MouseMove(p) ==
    /\ mounted /\ ContainerMounted
    /\ p[1] <= size[1] * Unit /\ p[2] <= size[2] * Unit
    /\ cursorPosRef' = IF handModeEnabled THEN cursorPosRef ELSE p
    /\ UNCHANGED <<roundVars, histVars, size, hitService, handView, simVars, handModeEnabled,
                   envVars, fxVars, framePending, sched, address, saveCalls, hitCalls, spawned>>

\* onHandData with a palm centre, then updateHandPosition; n is the
\* normalised palm position in hundredths
HandData(n) ==
    /\ mounted /\ ContainerMounted /\ handModeEnabled
    /\ cursorPosRef' = <<Scale(n[1], size[1]), Scale(n[2], size[2])>>
    /\ UNCHANGED <<roundVars, histVars, size, hitService, handView, simVars, handModeEnabled,
                   envVars, fxVars, framePending, sched, address, saveCalls, hitCalls, spawned>>

\* the hand mode button
ToggleHandMode ==
    /\ mounted /\ ContainerMounted
    /\ handModeEnabled' = ~handModeEnabled
    /\ UNCHANGED <<roundVars, histVars, size, hitService, handView, simVars, cursorPosRef,
                   envVars, fxVars, framePending, sched, address, saveCalls, hitCalls, spawned>>

\* the layout gives the play area another size
Resize(sz) ==
    /\ mounted
    /\ sz # size
    /\ resizes < MaxResizes
    /\ size' = sz
    /\ resizes' = resizes + 1
    /\ UNCHANGED <<roundVars, histVars, simVars, cursorPosRef, handModeEnabled,
                   spriteSheetsRef, address, saveCalls, hitCalls, spawned, ticks,
                   currentScreen, flockTimers, fxVars, framePending, sched,
                   hitService, handView>>

\* the wallet connects, disconnects or switches account
AddressChange(a) ==
    /\ mounted
    /\ Len(saveCalls) < MaxSaves
    /\ a # address
    /\ address' = a
    /\ saveCalls' = SaveEffect(gameOver, hitHistory, a, seconds)
    /\ UNCHANGED hitCalls
    /\ UNCHANGED <<roundVars, histVars, size, hitService, handView, simVars, cursorPosRef,
                   handModeEnabled, envVars, fxVars, framePending, sched, spawned>>

\* playAgain, with resetGame
\* mutation: the pool and the floating indicators survive
PlayAgain_KeepsPool ==
    /\ mounted /\ gameOver
    /\ birdsRef' = <<>>
    /\ spatialHashRef' = {}
    /\ cursorAnimRef' = IdleCursor
    /\ cursorPosRef' = <<0, 0>>
    /\ seconds' = RoundSeconds
    /\ gameOver' = FALSE
    /\ gameStarted' = FALSE
    /\ countdown' = StartCountdown
    /\ hitHistory' = <<>>
    /\ saveCalls' = <<>>
    /\ UNCHANGED hitCalls
    /\ lifeHits' = [r \in Refs |-> 0]
    /\ scored' = [points |-> 0, count |-> 0]
    /\ spawned' = 0
    /\ ticks' = 0
    /\ framePending' = TRUE
    /\ UNCHANGED <<size, hitService, handModeEnabled, spriteSheetsRef, address, currentScreen,
                   flockTimers, heap, birdPoolRef, floatingPointsRef, resizes>>
    /\ handView' = NewView(handView)
    /\ sched' = Commit

\* mutation: resetGame leaves gameStarted as it is
PlayAgain_KeepsStarted ==
    /\ mounted /\ gameOver
    /\ floatingPointsRef' = <<>>
    /\ cursorAnimRef' = IdleCursor
    /\ framePending' = TRUE
    /\ birdsRef' = <<>>
    /\ birdPoolRef' = <<>>
    /\ spatialHashRef' = {}
    /\ cursorPosRef' = <<0, 0>>
    /\ seconds' = RoundSeconds
    /\ gameOver' = FALSE
    /\ gameStarted' = gameStarted
    /\ countdown' = StartCountdown
    /\ hitHistory' = <<>>
    /\ saveCalls' = <<>>
    /\ UNCHANGED hitCalls
    /\ heap' = [r \in Refs |-> NewBird]
    /\ lifeHits' = [r \in Refs |-> 0]
    /\ scored' = [points |-> 0, count |-> 0]
    /\ spawned' = 0
    /\ ticks' = 0
    /\ UNCHANGED <<size, hitService, handModeEnabled, spriteSheetsRef, address, currentScreen,
                   flockTimers, resizes>>
    /\ handView' = NewView(handView)
    /\ sched' = Commit

PlayAgain ==
    /\ mounted /\ gameOver
    /\ floatingPointsRef' = <<>>
    /\ cursorAnimRef' = IdleCursor
    /\ framePending' = TRUE
    /\ birdsRef' = <<>>
    /\ birdPoolRef' = <<>>
    /\ spatialHashRef' = {}
    /\ cursorPosRef' = <<0, 0>>
    /\ seconds' = RoundSeconds
    /\ gameOver' = FALSE
    /\ gameStarted' = FALSE
    /\ countdown' = StartCountdown
    /\ hitHistory' = <<>>
    /\ saveCalls' = <<>>
    /\ UNCHANGED hitCalls
    /\ heap' = [r \in Refs |-> NewBird]
    /\ lifeHits' = [r \in Refs |-> 0]
    /\ scored' = [points |-> 0, count |-> 0]
    /\ spawned' = 0
    /\ ticks' = 0
    /\ UNCHANGED <<size, hitService, handModeEnabled, spriteSheetsRef, address, currentScreen,
                   flockTimers, resizes>>
    /\ handView' = NewView(handView)
    /\ sched' = Commit

\* onBackToMenu ('Leave Game' or 'Back to Menu'): Index unmounts the game
\* screen; the effect cleanups clear the intervals, the spawn timeout and
\* the frame callback
BackToMenu ==
    /\ mounted
    /\ currentScreen' = "start"
    /\ framePending' = FALSE
    /\ UNCHANGED <<roundVars, histVars, size, hitService, handView, simVars, cursorPosRef,
                   handModeEnabled, spriteSheetsRef, resizes, ticks,
                   flockTimers, fxVars, address, saveCalls, hitCalls, spawned>>
    /\ sched' = Commit

-----------------------------------------------------------------------------
(* The screens of Index *)

\* useAccount().isConnected of the start screen
isConnected == address # NoAddress

\* the wallet connects, disconnects or switches account on the start screen
\* or the leaderboard
Connect(a) ==
    /\ ~mounted
    /\ a # address
    /\ address' = a
    /\ UNCHANGED <<roundVars, histVars, size, hitService, handView, simVars, cursorPosRef,
                   handModeEnabled, envVars, fxVars, framePending, sched, saveCalls,
                   hitCalls, spawned>>

\* handleStart, the onClick of 'Play Game', which is disabled while
\* !isConnected: Index mounts a new game screen, whose state and refs have
\* their initial values.  The timeouts left by the previous game screen find
\* its container ref null and do nothing: they are dropped here.
\* mutation: 'Play Game' is not disabled without a wallet
Start_NoWalletTest ==
    /\ currentScreen = "start"
    /\ currentScreen' = "game"
    /\ seconds' = RoundSeconds
    /\ gameOver' = FALSE
    /\ gameStarted' = FALSE
    /\ countdown' = StartCountdown
    /\ hitHistory' = <<>>
    /\ heap' = [r \in Refs |-> NewBird]
    /\ birdsRef' = <<>>
    /\ birdPoolRef' = <<>>
    /\ spatialHashRef' = {}
    /\ cursorPosRef' = <<0, 0>>
    /\ handModeEnabled' = FALSE
    /\ spriteSheetsRef' = {}
    /\ saveCalls' = <<>>
    /\ spawned' = 0
    /\ resizes' = 0
    /\ lifeHits' = [r \in Refs |-> 0]
    /\ scored' = [points |-> 0, count |-> 0]
    /\ ticks' = 0
    /\ framePending' = TRUE
    /\ flockTimers' = <<>>
    /\ cursorAnimRef' = IdleCursor
    /\ floatingPointsRef' = <<>>
    /\ UNCHANGED <<size, hitService, address, hitCalls>>
    /\ handView' = NewView(handView)
    /\ sched' = Effects(NewRefs(sched), Render, Render')

Start ==
    /\ currentScreen = "start"
    /\ isConnected
    /\ currentScreen' = "game"
    /\ seconds' = RoundSeconds
    /\ gameOver' = FALSE
    /\ gameStarted' = FALSE
    /\ countdown' = StartCountdown
    /\ hitHistory' = <<>>
    /\ heap' = [r \in Refs |-> NewBird]
    /\ birdsRef' = <<>>
    /\ birdPoolRef' = <<>>
    /\ spatialHashRef' = {}
    /\ cursorPosRef' = <<0, 0>>
    /\ handModeEnabled' = FALSE
    /\ spriteSheetsRef' = {}
    /\ saveCalls' = <<>>
    /\ spawned' = 0
    /\ resizes' = 0
    /\ lifeHits' = [r \in Refs |-> 0]
    /\ scored' = [points |-> 0, count |-> 0]
    /\ ticks' = 0
    /\ framePending' = TRUE
    /\ flockTimers' = <<>>
    /\ cursorAnimRef' = IdleCursor
    /\ floatingPointsRef' = <<>>
    /\ UNCHANGED <<size, hitService, address, hitCalls>>
    /\ handView' = NewView(handView)
    /\ sched' = Effects(NewRefs(sched), Render, Render')

\* handleShowLeaderboard and handleBackFromLeaderboard
ShowLeaderboard ==
    /\ currentScreen = "start"
    /\ currentScreen' = "leaderboard"
    /\ UNCHANGED <<roundVars, histVars, size, hitService, handView, simVars, cursorPosRef,
                   handModeEnabled, spriteSheetsRef, resizes, ticks,
                   flockTimers, fxVars, framePending, sched, address, saveCalls,
                   hitCalls, spawned>>

BackFromLeaderboard ==
    /\ currentScreen = "leaderboard"
    /\ currentScreen' = "start"
    /\ UNCHANGED <<roundVars, histVars, size, hitService, handView, simVars, cursorPosRef,
                   handModeEnabled, spriteSheetsRef, resizes, ticks,
                   flockTimers, fxVars, framePending, sched, address, saveCalls,
                   hitCalls, spawned>>

\* the app as loaded: the start screen, no wallet connected, no game screen
InitMenu ==
    /\ currentScreen = "start"
    /\ address = NoAddress
    /\ seconds = RoundSeconds
    /\ gameOver = FALSE
    /\ gameStarted = FALSE
    /\ countdown = StartCountdown
    /\ hitHistory = <<>>
    /\ size = <<896, 504>>
    /\ heap = [r \in Refs |-> NewBird]
    /\ birdsRef = <<>>
    /\ birdPoolRef = <<>>
    /\ spatialHashRef = {}
    /\ cursorPosRef = <<0, 0>>
    /\ handModeEnabled = FALSE
    /\ spriteSheetsRef = {}
    /\ saveCalls = <<>>
    /\ spawned = 0
    /\ resizes = 0
    /\ lifeHits = [r \in Refs |-> 0]
    /\ scored = [points |-> 0, count |-> 0]
    /\ ticks = 0
    /\ hitCalls = NoCalls
    /\ framePending = FALSE
    /\ sched = NoSched
    /\ flockTimers = <<>>
    /\ cursorAnimRef = IdleCursor
    /\ floatingPointsRef = <<>>
    /\ hitService = NoService
    /\ handView = NoView

-----------------------------------------------------------------------------
(* The simulation: spawns from all four sides, frames, clicks, one change  *)
(* of the play-area size.  No sprite has loaded, hand mode stays off, the  *)
(* wallet stays connected, and the ids drawn are distinct.                 *)

SpawnSim ==
    \E side \in 0 .. 3, rs \in RandCoord, rt \in RandCoord, random \in RandSpecies :
        SpawnBird(side, rs, rt, random, spawned + 1)

Next ==
    \/ CountdownTick
    \/ TimerTick
    \/ SpawnSim
    \/ GameLoop
    \/ \E p \in TriggerPoints : Click(p)
    \/ \E sz \in Sizes : Resize(sz)
    \/ PlayAgain

Spec == Init /\ [][Next]_vars

-----------------------------------------------------------------------------
(* The hit resolver under both triggers: targets fly in from the top, ids   *)
(* are drawn from Ids and can coincide, the bat follows the mouse or the   *)
(* hand, and clicks and pinches trigger hits.  The size stays the initial  *)
(* one and no sprite has loaded.                                           *)

\* normalised palm centres, in hundredths
HandPoints == {<<50, 60>>}

\* mouse positions over the play area, in tenths of a px
MousePoints == {<<4480, 3000>>}

\* Math.random() draws for the species of the targets to hit
HitSpecies == {10, 90}

\* the ids a createBird call can draw, up to the names of the ids
FreshIds == IF birdsRef = <<>> THEN {1} ELSE Ids

SpawnHit ==
    \E rs \in RandCoord, rt \in RandCoord, random \in HitSpecies, id \in FreshIds :
        SpawnBird(2, rs, rt, random, id)

NextHit ==
    \/ CountdownTick
    \/ TimerTick
    \/ SpawnHit
    \/ GameLoop
    \/ \E p \in MousePoints : Click(p)
    \/ \E n \in HandPoints : HandData(n)
    \/ ToggleHandMode
    \/ Pinch
    \/ PlayAgain

SpecHit == Init /\ [][NextHit]_vars

-----------------------------------------------------------------------------
(* The animation: the sprite sheets load, so that drawBird advances the    *)
(* frames of the targets; a frame pointer is followed up to MaxFrame.      *)

MaxFrame == 1

\* Math.random() draws for the species of the animated targets
AnimSpecies == {10}

SpawnAnim ==
    \E rs \in RandCoord, rt \in RandCoord, random \in AnimSpecies :
        SpawnBird(2, rs, rt, random, spawned + 1)

GameLoopAnim ==
    \E jit \in FrameJitters, dt \in FrameDts :
        \E adv \in {a \in FrameElapsed :
                       \A r \in Refs : a[r] => heap[r].currentFrame < MaxFrame} :
            Frame(jit, adv, dt)

NextAnim ==
    \/ CountdownTick
    \/ TimerTick
    \/ SpawnAnim
    \/ GameLoopAnim
    \/ \E key \in {getRandomBird(random) : random \in AnimSpecies} : ImgLoad(key)
    \/ \E p \in MousePoints : Click(p)
    \/ PlayAgain

SpecAnim == Init /\ [][NextAnim]_vars

-----------------------------------------------------------------------------
(* The round: the timers, the wallet, play again and leaving the screen,   *)
(* with the first target of a round to hit.                                *)

SpawnRound ==
    \E rs \in RandCoord, rt \in RandCoord, random \in AnimSpecies :
        spawned = 0 /\ SpawnBird(2, rs, rt, random, 1)

NextRound ==
    \/ CountdownTick
    \/ TimerTick
    \/ SpawnRound
    \/ GameLoop
    \/ \E p \in MousePoints : Click(p)
    \/ \E a \in Addresses : AddressChange(a)
    \/ PlayAgain
    \/ BackToMenu

SpecRound == Init /\ [][NextRound]_vars

-----------------------------------------------------------------------------
(* The flocks: createFlock schedules its members, whose timeouts nothing   *)
(* cancels; the play area can shrink to a size at which a target waiting   *)
(* at its spawn point is within the hit radius of the area's edge.         *)

\* a play area of 128 x 72 px
SmallSize == <<128, 72>>

\* 3 + Math.floor(Math.random() * 3) members; the flock's y in tenths of a px
FlockSizes == {3}
FlockYs == {360}

\* a click at the left edge of the play area, in tenths of a px
EdgePoints == {<<0, 360>>}

NextFlock ==
    \/ CountdownTick
    \/ TimerTick
    \/ \E y \in FlockYs, n \in FlockSizes : CreateFlock(0, y, n)
    \/ \E rt \in RandCoord, random \in AnimSpecies, rv \in SpeedDraws :
          FlockMember(rt, random, spawned + 1, rv)
    \/ GameLoop
    \/ \E p \in EdgePoints : Click(p)
    \/ Resize(SmallSize)
    \/ PlayAgain

SpecFlock == Init /\ [][NextFlock]_vars

-----------------------------------------------------------------------------
(* The play area collapsed to nothing (a hidden or zero-width parent) *)

ZeroSize == <<0, 0>>

NextZero ==
    \/ CountdownTick
    \/ TimerTick
    \/ \E side \in {0, 2}, rs, rt \in RandCoord, random \in AnimSpecies :
          SpawnBird(side, rs, rt, random, spawned + 1)
    \/ GameLoop
    \/ \E p \in EdgePoints : Click(p)
    \/ Resize(ZeroSize)
    \/ PlayAgain

SpecZero == Init /\ [][NextZero]_vars

-----------------------------------------------------------------------------
(* The two input devices: the mouse and the tracked hand *)

NextInput ==
    \/ CountdownTick
    \/ TimerTick
    \/ SpawnRound
    \/ GameLoop
    \/ \E p \in MousePoints : MouseMove(p)
    \/ \E p \in MousePoints : Click(p)
    \/ \E n \in HandPoints : HandData(n)
    \/ ToggleHandMode
    \/ Pinch
    \/ PlayAgain

SpecInput == Init /\ [][NextInput]_vars

-----------------------------------------------------------------------------
(* The app from its start screen: wallet, screens, and rounds with one     *)
(* target                                                                  *)

NextMenu ==
    \/ \E a \in Addresses : Connect(a)
    \/ Start
    \/ ShowLeaderboard
    \/ BackFromLeaderboard
    \/ BackToMenu
    \/ CountdownTick
    \/ TimerTick
    \/ SpawnRound
    \/ GameLoop
    \/ \E p \in MousePoints : Click(p)
    \/ PlayAgain

SpecMenu == InitMenu /\ [][NextMenu]_vars

-----------------------------------------------------------------------------
(* The external calls: every recordHitImmediate call settles with success, *)
(* settles with failure, or stays pending                                  *)

CallOutcomes == {"recorded", "failed"}

NextCalls ==
    \/ CountdownTick
    \/ TimerTick
    \/ SpawnRound
    \/ GameLoop
    \/ \E p \in MousePoints : Click(p)
    \/ \E kind \in CallOutcomes, more \in BOOLEAN : HitOutcome(kind, more)
    \/ PlayAgain

SpecCalls == Init /\ [][NextCalls]_vars

-----------------------------------------------------------------------------
(* The species: spawns from the left edge with draws on both sides of      *)
(* every threshold of getRandomBird                                        *)

\* Math.random() draws for the species, in hundredths
SpeciesDraws == {0, 59, 60, 84, 85, 94, 95, 99}

SpawnSpecies(random) ==
    \E rs \in RandCoord, rt \in RandCoord :
        SpawnBird(0, rs, rt, random, spawned + 1)

NextSpecies ==
    \/ CountdownTick
    \/ TimerTick
    \/ \E random \in SpeciesDraws : SpawnSpecies(random)
    \/ GameLoop
    \/ \E p \in EdgePoints : Click(p)
    \/ PlayAgain

SpecSpecies == Init /\ [][NextSpecies]_vars

-----------------------------------------------------------------------------
(* The velocity of a new target: spawns from the four edges and flocks, at *)
(* the beginning and at the end of the round, with the extreme speed draws *)
(* and with coordinate draws near the corner of the play area              *)

\* createBird calls are explored in the first second of the round, and
\* createFlock calls in its last FlockWindow seconds
FlockWindow == 2

\* Math.random() draws, in hundredths: of the speed, and of the spawn and
\* the target coordinate (two different draws that createBird clamps to the
\* same coordinate)
RangeDraws == {0, 99}
CornerSpawn == 5
CornerTarget == 8

NextSpeed ==
    \/ CountdownTick
    \/ TimerTick
    \/ \E side \in 0 .. 3, rv \in RangeDraws, random \in AnimSpecies :
          /\ seconds = RoundSeconds
          /\ SpawnBirdAt(side, CornerSpawn, CornerTarget, random, spawned + 1, rv)
    \/ \E y \in FlockYs, n \in FlockSizes :
          seconds <= FlockWindow /\ ScheduleFlock(0, y, n)
    \/ \E rv \in RangeDraws, random \in AnimSpecies :
          FlockMember(CornerTarget, random, spawned + 1, rv)
    \/ GameLoop

SpecSpeed == Init /\ [][NextSpeed]_vars

-----------------------------------------------------------------------------
(* Butterflies from every edge: the spawn loop creates them at the start   *)
(* of the round, with draws near an end and in the middle of the edge.     *)

PathSpawnDraws == {5, 50}
PathTargetDraws == {50, 95}
PathSpecies == {70}

SpawnPath(side, rs, rt, random) ==
    /\ seconds = RoundSeconds
    /\ \E rv \in SpeedDraws : SpawnBirdAt(side, rs, rt, random, spawned + 1, rv)

NextPath ==
    \/ CountdownTick
    \/ TimerTick
    \/ \E side \in 0 .. 3, rs \in PathSpawnDraws, rt \in PathTargetDraws,
          random \in PathSpecies : SpawnPath(side, rs, rt, random)
    \/ GameLoop

SpecPath == Init /\ [][NextPath]_vars

-----------------------------------------------------------------------------
(* The running round with frames that keep firing: the browser calls a     *)
(* requested frame callback as long as the page is shown, which is weak    *)
(* fairness of the frame callback.  Nothing else is assumed to happen.     *)

NextRetire ==
    \/ CountdownTick
    \/ TimerTick
    \/ \E side \in {0, 2}, rs \in RandCoord, rt \in RandCoord, random \in RandSpecies :
          SpawnBird(side, rs, rt, random, spawned + 1)
    \/ GameLoop
    \/ \E p \in MousePoints : Click(p)

SpecRetire == Init /\ [][NextRetire]_vars /\ WF_vars(GameLoop)

-----------------------------------------------------------------------------
(* The round with its frames and both intervals firing: a requested frame  *)
(* is called, and an interval that is set fires again and again.  The      *)
(* player is not assumed to do anything.                                   *)

SpecFade ==
    /\ Init /\ [][NextRetire]_vars
    /\ WF_vars(GameLoop) /\ WF_vars(TimerTick) /\ WF_vars(CountdownTick)

-----------------------------------------------------------------------------
(* The hit service alone: hits are queued, relayer requests settle with    *)
(* any outcome, timeouts fire, and recordHitWithRetry is called with any   *)
(* limit.  A request that was sent settles and a timeout that was set      *)
(* fires, so both are weakly fair; queueHit is the caller's choice.        *)

ProcessQueueStep ==
    \E i \in 1 .. MaxQueued :
        \/ \E outcome \in Outcomes : RecordHitSettles(i, outcome)
        \/ DelayElapsed(i)

NextService ==
    \/ \E points \in HitPoints : queueHit(points)
    \/ ProcessQueueStep
    \/ \E maxRetries \in RetryLimits : recordHitWithRetry(maxRetries)
    \/ \E outcome \in Outcomes : RetrySettles(outcome)
    \/ BackoffElapsed
    \/ RetryReturned

SpecService == Init /\ [][NextService]_vars /\ WF_vars(ProcessQueueStep)

-----------------------------------------------------------------------------
(* The hand-tracking view through rounds: results arrive with an open, a   *)
(* pinching or a degenerate hand, 40 ms or 130 ms after the previous one,  *)
(* while hand mode is on; the round runs to its end and is played again.   *)

NextHand ==
    \/ CountdownTick
    \/ TimerTick
    \/ ToggleHandMode
    \/ \E hand \in {<<2, 10>>, <<6, 10>>, <<3, 0>>}, n \in HandPoints, dt \in {40, 130} :
          OnResults(hand, n, dt)
    \/ PlayAgain

SpecHand == Init /\ [][NextHand]_vars

-----------------------------------------------------------------------------
(* Properties of the index, the pool and the simulation step *)

Active == Range(birdsRef)
Pooled == Range(birdPoolRef)
KeysOf(r) == {e[1] : e \in {f \in spatialHashRef : f[2] = r}}
Running == gameStarted /\ ~gameOver

\* C1: a target is in some bucket of the spatial hash exactly if it is in
\* the active list, and then it is in exactly one bucket.
C1_IndexIsActiveSet ==
    \A r \in Refs :
        /\ (KeysOf(r) # {}) <=> (r \in Active)
        /\ Cardinality(KeysOf(r)) <= 1

\* C1 witness: after a retirement and a reuse from the pool, with a hit
\* target falling, the index holds two targets.
C1_Witness ==
    /\ Len(birdsRef) = 2 /\ spawned = 2
    /\ \E r \in Active : heap[r].status = "hit"
    /\ \E r \in Active : heap[r].status = "flying" /\ heap[r].x > 0
    /\ Cardinality({e[1] : e \in spatialHashRef}) = 2

\* C2 as claimed: while the play area is shown, every active target's
\* cellKey is the cell of its position under the current cell size and it
\* sits in exactly that bucket; every pooled target has no cellKey and no
\* bucket.
C2_KeyMatchesPosition ==
    ContainerMounted =>
        /\ \A r \in Active :
              /\ heap[r].cellKey = getCellKeyFromXY(heap[r].x, heap[r].y, CellSize)
              /\ KeysOf(r) = {heap[r].cellKey}
        /\ \A r \in Pooled : heap[r].cellKey = NoKey /\ KeysOf(r) = {}

\* C3: no instance is in both the active list and the pool, and none
\* appears twice in either; an instance leaves the active list only for the
\* pool (or by playAgain) and leaves the pool only for the active list.
NoDuplicates(seq) == Cardinality(Range(seq)) = Len(seq)

C3_Disjoint ==
    /\ Active \cap Pooled = {}
    /\ NoDuplicates(birdsRef)
    /\ NoDuplicates(birdPoolRef)

C3_Moves ==
    \A r \in Refs :
        /\ (r \in Active /\ r \notin Range(birdsRef'))
              => (r \in Range(birdPoolRef') \/ (gameOver /\ ~gameOver'))
        /\ (r \in Pooled /\ r \notin Range(birdPoolRef'))
              => (r \in Range(birdsRef') \/ (gameOver /\ ~gameOver'))

C3_PoolActiveDisjoint == []C3_Disjoint /\ [][C3_Moves]_vars

\* C3 witness: one instance active, one retired to the pool
C3_Witness == Len(birdsRef) = 1 /\ Len(birdPoolRef) = 1

\* the trigger points that lie in the play area as it is now
InArea(p) == p[1] <= size[1] * Unit /\ p[2] <= size[2] * Unit

\* the flying active targets within the hit radius of p, by brute force
BruteForce(p) ==
    {r \in Active : heap[r].status = "flying"
                    /\ InRadius(heap[r], p[1], p[2], HitRadius)}

\* the entries a trigger appended to the hit history
NewEntries == SubSeq(hitHistory', Len(hitHistory) + 1, Len(hitHistory'))

\* C6 as claimed: a click at p turns exactly the flying active targets
\* within the hit radius of p to hit, and appends exactly one history entry
\* for each of them, with its species and points; no other target changes.
C6_ClickRegisters(p) ==
    LET T == BruteForce(p)
    IN  /\ \A r \in Refs :
              IF r \in T
              THEN heap'[r].status = "hit" /\ lifeHits'[r] = lifeHits[r] + 1
              ELSE heap'[r] = heap[r] /\ lifeHits'[r] = lifeHits[r]
        /\ Len(NewEntries) = Cardinality(T)
        /\ \A name \in Species :
              Cardinality({i \in DOMAIN NewEntries :
                              NewEntries[i] = [birdType |-> name,
                                               points |-> Points(name)]})
                  = Cardinality({r \in T : heap[r].bird = name})

C6_ExactlyInRadius ==
    [][\A p \in TriggerPoints : Click(p) => C6_ClickRegisters(p)]_vars

\* C7 as claimed: for a trigger point in the play area, the candidates of
\* queryNearbyBirds that pass the distance test are exactly the flying
\* active targets within the hit radius, and no candidate is a hit target.
C7_QueryEqualsBruteForce ==
    ContainerMounted =>
        \A p \in {q \in TriggerPoints : InArea(q)} :
            LET cand == Range(queryNearbyBirds(spatialHashRef, heap,
                                               p[1], p[2], HitRadius))
            IN  /\ {r \in cand : InRadius(heap[r], p[1], p[2], HitRadius)}
                      = BruteForce(p)
                /\ \A r \in cand : heap[r].status = "flying"

\* C9: in a frame of a running round, a flying target whose next position
\* leaves [-150, width + 150] x [-150, height + 150] and a hit target whose
\* y comes to exceed height + 100 is, after the frame, out of the active
\* list, out of every bucket and in the pool; after the frame every active
\* flying target is within that box and every active hit target has
\* y <= height + 100.
Leaves(r, jitter) ==
    LET bd == heap[r]
        w == size[1] * Unit
        h == size[2] * Unit
    IN  IF bd.status = "hit"
        THEN bd.y + bd.velocityY + 1 > h + FallMargin * Unit
        ELSE LET n == NextFlying(bd, jitter)
             IN  ~(n.finite /\ n.x >= -(OutMargin * Unit)
                            /\ n.x <= w + OutMargin * Unit
                            /\ n.y >= -(OutMargin * Unit)
                            /\ n.y <= h + OutMargin * Unit)

C9_FramePost(jit) ==
    /\ \A r \in Active :
          IF Leaves(r, jit[r])
          THEN /\ r \notin Range(birdsRef')
               /\ r \in Range(birdPoolRef')
               /\ \A e \in spatialHashRef' : e[2] # r
               /\ ~heap'[r].active
          ELSE r \in Range(birdsRef')
    /\ \A r \in Range(birdsRef') :
          IF heap'[r].status = "hit"
          THEN heap'[r].y <= size[2] * Unit + FallMargin * Unit
          ELSE /\ heap'[r].x >= -(OutMargin * Unit)
               /\ heap'[r].x <= size[1] * Unit + OutMargin * Unit
               /\ heap'[r].y >= -(OutMargin * Unit)
               /\ heap'[r].y <= size[2] * Unit + OutMargin * Unit

C9_RetiredInSameTick ==
    [][Running =>
          \A jit \in FrameJitters, adv \in FrameElapsed, dt \in FrameDts :
              Frame(jit, adv, dt) => C9_FramePost(jit)]_vars

\* C9 witness: a target that fell out below has been retired to the pool
\* while a flying target is still active
C9_Witness ==
    /\ Running
    /\ \E r \in Pooled : heap[r].status = "hit"
                         /\ heap[r].y > size[2] * Unit + FallMargin * Unit
    /\ \E r \in Active : heap[r].status = "flying"

-----------------------------------------------------------------------------
(* Properties of the hit resolver, the totals, the pool reuse, the timer *)

\* the targets a step turns from flying to hit
Transitions == {r \in Refs : heap[r].status = "flying" /\ heap'[r].status = "hit"
                             /\ r \in Active /\ r \in Range(birdsRef')}

\* the present state as catchBird takes it
CatchState == [heap |-> heap, hist |-> hitHistory,
               lifeHits |-> lifeHits, scored |-> scored,
               floating |-> floatingPointsRef, calls |-> hitCalls]

\* C4: over any sequence of clicks and pinches a target makes at most one
\* flying -> hit transition in a spawn lifetime and every history entry
\* comes with one such transition; catchBird on the id of a target that is
\* already hit changes nothing.
C4_Inv ==
    /\ \A r \in Refs : lifeHits[r] <= 1
    /\ \A r \in Active : (heap[r].status = "hit") <=> (lifeHits[r] = 1)
    /\ \A id \in Ids :
          LET b == FindById(birdsRef, heap, id, 1)
          IN  (b # NoRef /\ heap[b].status = "hit")
                  => catchBird(CatchState, birdsRef, id) = CatchState

C4_Step ==
    /\ Len(hitHistory') > Len(hitHistory)
          => Len(hitHistory') - Len(hitHistory) = Cardinality(Transitions)
    /\ \A r \in Transitions : lifeHits[r] = 0 /\ lifeHits'[r] = 1

C4_HitOncePerLifetime == []C4_Inv /\ [][C4_Step]_vars

\* C4 witness: a hit target and a flying target of the same id, the hit one
\* first in the active list, both under the bat in hand mode: a pinch or a
\* click here calls catchBird on the hit target.
C4_Witness ==
    /\ Running /\ handModeEnabled
    /\ \E i, j \in DOMAIN birdsRef :
          /\ i < j
          /\ heap[birdsRef[i]].id = heap[birdsRef[j]].id
          /\ heap[birdsRef[i]].status = "hit" /\ lifeHits[birdsRef[i]] = 1
          /\ birdsRef[j] \in BruteForce(cursorPosRef)
          /\ birdsRef[j] \in Range(queryNearbyBirds(spatialHashRef, heap,
                                       cursorPosRef[1], cursorPosRef[2], HitRadius))

\* C5: the score is the sum of the points of the targets hit in the round
\* and the hit count is their number, both as derived from the hit history;
\* every saveGameData call got the score and the hits of the history it
\* got, which is the round's history.
C5_TotalsFromHistory ==
    /\ Score(hitHistory) = scored.points
    /\ Hits(hitHistory) = scored.count
    /\ \A i \in DOMAIN saveCalls :
          /\ saveCalls[i].hitHistory = hitHistory
          /\ saveCalls[i].score = scored.points
          /\ saveCalls[i].hits = scored.count

\* C5 witness: a round is over and saved with two hits of different points
C5_Witness ==
    /\ gameOver /\ Len(saveCalls) = 1
    /\ Len(hitHistory) = 2
    /\ hitHistory[1].points # hitHistory[2].points

\* C8: the instance a createBird call adds (the last of the active list)
\* has status flying, frame 0 with the spawn's timestamp, active true, the
\* position, velocity, direction and initialY of a spawn point, no hit of
\* this lifetime, and sits in exactly the bucket of its position, which is
\* its cellKey.
SpawnedFields(bd) ==
    \E side \in 0 .. 3, rs \in RandCoord, rt \in RandCoord :
        LET p == SpawnPoint(side, rs, rt, NoKey)
        IN  /\ bd.x = p.x /\ bd.y = p.y /\ bd.initialY = p.y
            /\ bd.velocityX = Velocity(p.targetX - p.x)
            /\ bd.velocityY = Velocity(p.targetY - p.y)
            /\ bd.direction = (IF bd.velocityX > 0 THEN "right" ELSE "left")

C8_SpawnPost ==
    LET b == birdsRef'[Len(birdsRef')]
        bd == heap'[b]
    IN  /\ Len(birdsRef') = Len(birdsRef) + 1
        /\ bd.status = "flying"
        /\ bd.currentFrame = 0
        /\ bd.lastFrameTime = "spawn"
        /\ bd.active
        /\ bd.bird \in Species
        /\ SpawnedFields(bd)
        /\ bd.cellKey = getCellKeyFromXY(bd.x, bd.y, CellSize)
        /\ {e \in spatialHashRef' : e[2] = b} = {<<bd.cellKey, b>>}
        /\ lifeHits'[b] = 0

C8_ReuseIsReset == [][spawned' = spawned + 1 => C8_SpawnPost]_vars

\* C8 witness: the only instance ever allocated in the round was hit while
\* its sprite was loaded, fell out, and is flying again at frame 0
C8_Witness ==
    /\ spawned = 2 /\ Len(hitHistory) = 1
    /\ birdsRef = <<1>> /\ birdPoolRef = <<>>
    /\ heap[2] = NewBird
    /\ heap[1].bird \in spriteSheetsRef
    /\ heap[1].status = "flying" /\ heap[1].currentFrame = 0
    /\ heap[1].lastFrameTime = "spawn"

\* C10: the timer starts at 60, loses exactly 1 per tick of the round
\* timer, which fires only in a running round, stays within 0 .. 60, and
\* the round is over exactly from the 60th tick on.
C10_Inv ==
    /\ seconds \in 0 .. RoundSeconds
    /\ seconds = RoundSeconds - ticks
    /\ gameOver <=> (ticks = RoundSeconds)

C10_Step ==
    /\ ticks' # ticks =>
          \/ Running /\ ticks' = ticks + 1 /\ seconds' = seconds - 1
          \/ gameOver /\ ticks' = 0 /\ seconds' = RoundSeconds
    /\ seconds' # seconds => ticks' # ticks

C10_TimerCountsDown == []C10_Inv /\ [][C10_Step]_vars

\* C10 witness: the 60th tick has fired and the round is over
C10_Witness == gameOver /\ ticks = RoundSeconds /\ seconds = 0

-----------------------------------------------------------------------------
(* Properties of the round, the hand-off and the frame loop *)

\* C11 as claimed: a round's summary is handed to saveGameData at most
\* once, whatever happens while the game-over screen is shown.
C11_SavedOncePerRound == Len(saveCalls) <= 1

\* C12: saveGameData is called only in a commit in which the round is over
\* with the timer at 0, the hit history is non-empty and the wallet is
\* connected, and it gets that history and that address; a round without
\* hits, a round without address and a screen that was left get no call.
C12_Inv ==
    /\ saveCalls # <<>> => gameOver /\ seconds = 0 /\ hitHistory # <<>>
    /\ \A i \in DOMAIN saveCalls :
          /\ saveCalls[i].hostAddress # NoAddress
          /\ saveCalls[i].hitHistory # <<>>
          /\ saveCalls[i].durationSec = RoundSeconds

C12_Step ==
    Len(saveCalls') > Len(saveCalls) =>
        /\ mounted' /\ gameOver' /\ seconds' = 0
        /\ hitHistory' # <<>> /\ address' # NoAddress
        /\ saveCalls'[Len(saveCalls')].hostAddress = address'
        /\ saveCalls'[Len(saveCalls')].hitHistory = hitHistory'

C12_SavedOnlyWhenOver == []C12_Inv /\ [][C12_Step]_vars

\* C12 witness: a round with a hit has been handed over
C12_Witness ==
    /\ gameOver /\ Len(hitHistory) = 1 /\ Len(saveCalls) = 1
    /\ saveCalls[1].hostAddress = address

\* C13: the round moves only from countdown to running, from running to
\* over and, by playAgain, from over to countdown; the countdown starts at
\* 3, loses 1 per tick, and the round is started exactly when it is 0; the
\* round becomes over only with the timer at 0.
Phase(started, over) ==
    IF over THEN "over" ELSE IF started THEN "running" ELSE "countdown"

C13_Inv ==
    /\ countdown \in 0 .. StartCountdown
    /\ gameStarted <=> (countdown = 0)
    /\ gameOver => gameStarted

C13_Step ==
    LET from == Phase(gameStarted, gameOver)
        to == Phase(gameStarted', gameOver')
    IN  /\ from # to =>
              \/ from = "countdown" /\ to = "running"
                   /\ countdown = 1 /\ countdown' = 0
              \/ from = "running" /\ to = "over" /\ seconds = 1 /\ seconds' = 0
              \/ from = "over" /\ to = "countdown"
                   /\ countdown' = StartCountdown /\ seconds' = RoundSeconds
        /\ countdown' # countdown =>
              \/ countdown' = countdown - 1
              \/ from = "over" /\ countdown' = StartCountdown

C13_RoundStateMachine == []C13_Inv /\ [][C13_Step]_vars

\* C13 witness: the round that is over went through countdown and running
C13_Witness == gameOver /\ gameStarted /\ countdown = 0 /\ ticks = RoundSeconds

-----------------------------------------------------------------------------
(* Properties of the reset and of the states without simulation *)

\* C14: a playAgain step leaves the active list, the pool, the spatial
\* index, the floating indicators and the hit history empty, the cursor hit
\* animation idle, the timer at 60 and the round neither started nor over,
\* so that nothing of the finished round is left for a later callback.
C14_ResetPost ==
    /\ birdsRef' = <<>> /\ birdPoolRef' = <<>> /\ spatialHashRef' = {}
    /\ floatingPointsRef' = <<>> /\ hitHistory' = <<>>
    /\ cursorAnimRef' = IdleCursor
    /\ seconds' = RoundSeconds
    /\ ~gameStarted' /\ ~gameOver'

C14_PlayAgainResets == [][(gameOver /\ ~gameOver') => C14_ResetPost]_vars

\* C14 witness: a round has been reset by playAgain (timeouts of a flock of
\* the finished round are still pending) and nothing has run since
C14_Witness ==
    /\ flockTimers # <<>>
    /\ ~gameStarted /\ ~gameOver /\ countdown = StartCountdown
    /\ seconds = RoundSeconds
    /\ birdsRef = <<>> /\ birdPoolRef = <<>> /\ hitHistory = <<>>

\* C15 as claimed: a step taken in countdown or over, other than playAgain,
\* changes no target's position, velocity or status, retires no target and
\* adds no entry to the hit history.
SameMotion(r) ==
    /\ heap'[r].x = heap[r].x /\ heap'[r].y = heap[r].y
    /\ heap'[r].velocityX = heap[r].velocityX
    /\ heap'[r].velocityY = heap[r].velocityY
    /\ heap'[r].status = heap[r].status

C15_NoSimulationUnlessRunning ==
    [][(~Running /\ ~(gameOver /\ ~gameOver')) =>
          /\ hitHistory' = hitHistory
          /\ \A r \in Active : r \in Range(birdsRef') /\ SameMotion(r)]_vars

\* C16 as claimed: a step taken while the round is not running adds no
\* target to the active list and no entry to the spatial index.
C16_NoSpawnUnlessRunning ==
    [][~Running =>
          /\ Range(birdsRef') \subseteq Range(birdsRef)
          /\ spatialHashRef' \subseteq spatialHashRef]_vars

\* C17 as claimed: while the play area has width 0 or height 0 no step
\* creates a target or registers a hit, and no active target has a velocity
\* that is not a number.
C17_ZeroAreaIsInert ==
    [][(size[1] = 0 \/ size[2] = 0) =>
          /\ spawned' <= spawned
          /\ Len(hitHistory') <= Len(hitHistory)
          /\ \A r \in Range(birdsRef') : ~heap'[r].velocityNaN]_vars

-----------------------------------------------------------------------------
(* Properties of the input handlers *)

\* the positions a hand-tracking event can write for the current play area
HandWritten == { <<Scale(n[1], size[1]), Scale(n[2], size[2])>> : n \in HandPoints }

\* C19: the cursor position has one writer at a time.  Apart from the reset
\* of playAgain, a step that changes cursorPosRef writes a tracked hand
\* position when hand mode is on and a mouse position when it is off: a
\* mouse move in hand mode and a hand-tracking event out of it change nothing.
C19_Step ==
    (cursorPosRef' # cursorPosRef /\ ~(gameOver /\ ~gameOver')) =>
        IF handModeEnabled
        THEN cursorPosRef' \in HandWritten /\ cursorPosRef' \notin MousePoints
        ELSE cursorPosRef' \in MousePoints /\ cursorPosRef' \notin HandWritten

C19_OneCursorWriter == [][C19_Step]_vars

\* C19 witness: the hand wrote the cursor position in hand mode, hand mode
\* was switched off, and the round is running with the mouse as the writer
C19_Witness ==
    /\ ~handModeEnabled /\ cursorPosRef \in HandWritten
    /\ Running /\ birdsRef # <<>>

\* C20 as claimed: with the cursor in the play area and hand mode on, a
\* click at the cursor position and a pinch lead to the same state, in
\* every state of the round.
C20_PinchEqualsClick ==
    (mounted /\ ContainerMounted /\ handModeEnabled) =>
        ~ ENABLED \/ Click(cursorPosRef) /\ ~Pinch
                  \/ Pinch /\ ~Click(cursorPosRef)

-----------------------------------------------------------------------------
(* Properties of the screens *)

\* C21: the game screen is entered only from the start screen and only
\* while a wallet is connected, and it is entered at the beginning of the
\* start countdown.
C21_Step ==
    (~mounted /\ mounted') =>
        /\ currentScreen = "start" /\ isConnected
        /\ countdown' = StartCountdown /\ ~gameStarted' /\ ~gameOver'

C21_StartNeedsWallet == [][C21_Step]_vars

\* C21 witness: the game screen has been entered with a wallet connected
\* and its countdown has begun
C21_Witness == mounted /\ isConnected /\ ~gameStarted /\ countdown = 2

-----------------------------------------------------------------------------
(* Properties of the external calls *)

\* C22: the outcome of an external call does not reach the simulation.  A
\* step in which a recordHitImmediate call settles, with either outcome,
\* leaves the targets, the pool, the index, the hit history, the score, the
\* timer and the round state as they are; and a pending call holds nothing
\* up: clicks and frames are accepted as without it.  (saveGameData's
\* promise is only logged.)
C22_Settles == hitCalls'.toasts # hitCalls.toasts \/ (hitCalls.pending /\ ~hitCalls'.pending)

C22_Step ==
    C22_Settles =>
        UNCHANGED <<heap, birdsRef, birdPoolRef, spatialHashRef, hitHistory,
                    scored, lifeHits, seconds, gameOver, gameStarted,
                    countdown, saveCalls, floatingPointsRef, cursorAnimRef>>

C22_NoWait ==
    hitCalls.pending =>
        /\ (mounted /\ ContainerMounted) => \A p \in MousePoints : ENABLED Click(p)
        /\ (mounted /\ framePending) => ENABLED GameLoop
        /\ (mounted /\ gameStarted /\ ~gameOver) => ENABLED TimerTick

C22_OutcomesDoNotReachSimulation == []C22_NoWait /\ [][C22_Step]_vars

\* C22 witness: a call has failed while the round is running, and its hit
\* is in the history
C22_Witness ==
    /\ "failed" \in hitCalls.toasts /\ "recorded" \notin hitCalls.toasts
    /\ Running /\ Len(hitHistory) = 1 /\ Score(hitHistory) = scored.points

-----------------------------------------------------------------------------
(* Properties of createBird *)

\* the target a createBird step has pushed
Pushed == heap'[birdsRef'[Len(birdsRef')]]

\* the catalog by cumulative weight: 60, 25, 10 and 5 of 100
C23_Catalog(random) ==
    CASE random < 60 -> [name |-> "Bee", points |-> 1]
      [] random >= 60 /\ random < 60 + 25 -> [name |-> "Butterfly", points |-> 2]
      [] random >= 60 + 25 /\ random < 60 + 25 + 10 -> [name |-> "Fly", points |-> 5]
      [] random >= 60 + 25 + 10 -> [name |-> "Ava", points |-> 10]

\* C23: in every state of the round a createBird step whose species draw is
\* random pushes a target of the species the cumulative weights give for
\* random, one species of the catalog, with that species' points.
C23_SpeciesByWeight ==
    [][\A random \in SpeciesDraws :
          SpawnSpecies(random) =>
              /\ Pushed.bird = C23_Catalog(random).name
              /\ Pushed.bird \in Species
              /\ Points(Pushed.bird) = C23_Catalog(random).points]_vars

\* C23 witness: targets of the two rarest species are active
C23_Witness ==
    /\ \E r \in Active : heap[r].bird = "Ava"
    /\ \E r \in Active : heap[r].bird = "Fly"

\* C24 as claimed: a createBird step pushes a target that flies to the right
\* when it is spawned left of the play area and to the left when spawned
\* right of it, whose direction is 'right' exactly when velocityX > 0, and
\* whose speed lies in [1.5 + 1.5 t / 60, 2.5 + 1.5 t / 60) for the elapsed
\* round time t = 60 - seconds (in thousandths of a px per frame).
C24_SpawnVelocity ==
    [][spawned' = spawned + 1 =>
          /\ Pushed.x < 0 => (Pushed.velocityX > 0 /\ Pushed.direction = "right")
          /\ Pushed.x > size[1] * Unit =>
                (Pushed.velocityX < 0 /\ Pushed.direction = "left")
          /\ Pushed.direction = "right" <=> Pushed.velocityX > 0
          /\ Pushed.speed >= 1500 + (1500 * (RoundSeconds - seconds)) \div RoundSeconds
          /\ Pushed.speed < 2500 + (1500 * (RoundSeconds - seconds)) \div RoundSeconds]_vars

\* C29 as claimed: a createBird step pushes a target whose horizontal
\* velocity is not zero, whatever the edge.
C29_HorizontalVelocity ==
    [][spawned' = spawned + 1 =>
          (Pushed.velocityX # 0 /\ ~Pushed.velocityNaN)]_vars

-----------------------------------------------------------------------------
(* Properties of the hit registration *)

\* C25: within a round the hit history is append-only.  playAgain empties
\* it; every other step keeps the entries it has, in their order, and adds
\* at the end one entry for each target it turns from flying to hit.
C25_Step ==
    IF gameOver /\ ~gameOver'
    THEN hitHistory' = <<>>
    ELSE /\ Len(hitHistory') = Len(hitHistory) + Cardinality(Transitions)
         /\ SubSeq(hitHistory', 1, Len(hitHistory)) = hitHistory

C25_HistoryAppendOnly == [][C25_Step]_vars

\* C25 witness: a second hit has been appended behind a different first one
C25_Witness ==
    /\ Running /\ Len(hitHistory) = 2
    /\ hitHistory[1].birdType # hitHistory[2].birdType

\* C26: a step that registers hits sets, for each target it turns from
\* flying to hit, the status hit and the velocity (0, 2) and nothing else of
\* the target: not its position, not its cell key.  It leaves every other
\* target, the active list, the pool and the buckets as they are, adds one
\* floating indicator per hit, and when it registers one hit, the indicator
\* with the target's points, its position and opacity 1 and the history
\* entry with its species and points are the ones added.
C26_Step ==
    Transitions # {} =>
        /\ \A r \in Refs :
              heap'[r] = IF r \in Transitions
                         THEN [heap[r] EXCEPT !.status = "hit",
                                              !.velocityX = 0,
                                              !.velocityY = HitVelocityY * Unit,
                                              !.velocityNaN = FALSE]
                         ELSE heap[r]
        /\ UNCHANGED <<birdsRef, birdPoolRef, spatialHashRef>>
        /\ Len(floatingPointsRef') = Len(floatingPointsRef) + Cardinality(Transitions)
        /\ SubSeq(floatingPointsRef', 1, Len(floatingPointsRef)) = floatingPointsRef
        /\ \A r \in Transitions :
              Cardinality(Transitions) = 1 =>
                  /\ floatingPointsRef' =
                        Append(floatingPointsRef,
                               [points |-> Points(heap[r].bird), x |-> heap[r].x,
                                y |-> heap[r].y, opacity |-> FullOpacity])
                  /\ hitHistory' =
                        Append(hitHistory, [birdType |-> heap[r].bird,
                                            points |-> Points(heap[r].bird)])

C26_HitEffect == [][C26_Step]_vars

\* C26 witness: a target has just been hit: it is where its indicator is,
\* with the velocity of a hit, and another target is still flying
C26_Witness ==
    /\ Running /\ Len(floatingPointsRef) = 1
    /\ \E r \in Active :
          /\ heap[r].status = "hit"
          /\ heap[r].velocityX = 0 /\ heap[r].velocityY = HitVelocityY * Unit
          /\ floatingPointsRef[1].x = heap[r].x /\ floatingPointsRef[1].y = heap[r].y
          /\ floatingPointsRef[1].opacity = FullOpacity
    /\ \E q \in Active : heap[q].status = "flying"

-----------------------------------------------------------------------------
(* Properties of the simulation tick *)

\* C28: a frame of the running round processes every target that is active
\* at its start exactly once.  A target that leaves is retired, once: it is
\* added to the pool and is gone from the active list.  A target that stays
\* has made exactly one step: a hit target has gained 0.1 of downward
\* velocity and moved by it, a flying target is at its next position.  The
\* active list after the frame is the staying targets, without gaps or
\* duplicates.
C28_FramePost(jit) ==
    LET leavers == {r \in Active : Leaves(r, jit[r])}
    IN  /\ Range(birdsRef') = Active \ leavers
        /\ Len(birdsRef') = Cardinality(Active \ leavers)
        /\ Range(birdPoolRef') = Pooled \cup leavers
        /\ Len(birdPoolRef') = Len(birdPoolRef) + Cardinality(leavers)
        /\ \A r \in Active \ leavers :
              IF heap[r].status = "hit"
              THEN /\ heap'[r].velocityY = heap[r].velocityY + 1
                   /\ heap'[r].y = heap[r].y + heap[r].velocityY + 1
                   /\ heap'[r].x = heap[r].x
              ELSE /\ heap'[r].x = NextFlying(heap[r], jit[r]).x
                   /\ heap'[r].y = NextFlying(heap[r], jit[r]).y
                   /\ heap'[r].velocityY = heap[r].velocityY
        /\ \A r \in leavers :
              /\ heap'[r].x = heap[r].x
              /\ heap'[r].status = heap[r].status

C28_TickProcessesEachOnce ==
    [][Running =>
          \A jit \in FrameJitters, adv \in FrameElapsed, dt \in FrameDts :
              Frame(jit, adv, dt) => C28_FramePost(jit)]_vars

\* C28 witness: the first of two active targets has been retired and the
\* last one swapped into its slot
C28_Witness ==
    /\ Running
    /\ birdsRef = <<2>> /\ birdPoolRef = <<1>>
    /\ heap[2].active /\ ~heap[1].active

\* C27: while the round keeps running and frames keep firing, every active
\* target is eventually retired: from a state of the running round in which
\* r is active, a state is reached in which r is not active or the round is
\* not running.
C27_EventuallyRetired ==
    \A r \in Refs :
        (Running /\ r \in Active) ~> (r \notin Active \/ ~Running)

\* C27 witness: a hit target has fallen out and been retired while the
\* round runs on
C27_Witness ==
    /\ Running /\ birdsRef = <<>>
    /\ \E r \in Pooled : heap[r].status = "hit" /\ heap[r].velocityY > HitVelocityY * Unit

\* C30: 'Play again' in the state over leads to idle and not directly into a
\* new round: a step of the game screen that leaves the state over does not
\* leave it in a state in which the start countdown runs (the round not yet
\* started, the countdown above zero and its interval set).
C30_PlayAgainToIdle ==
    [][(mounted /\ gameOver /\ mounted' /\ ~gameOver')
          => ~(~gameStarted' /\ countdown' > 0)]_vars

\* C31: every floating score indicator is eventually removed once created,
\* whatever the round state becomes afterwards: a list of indicators that
\* is not empty becomes empty (each round creates finitely many).
C31_IndicatorsRemoved ==
    (floatingPointsRef # <<>>) ~> (floatingPointsRef = <<>>)

\* C32: the hit animation of the cursor expires by itself in every round
\* state in which it can be set: once isHitting is true it becomes false
\* again.
C32_HitAnimationExpires ==
    cursorAnimRef.isHitting ~> ~cursorAnimRef.isHitting

C34_HitIsCandidate ==
    [][\A p \in MousePoints :
          Click(p) =>
              \A r \in Refs :
                  (heap[r].status = "flying" /\ heap'[r].status = "hit")
                      => InRadius(heap[r], p[1], p[2], HitRadius)]_vars

\* newY of the first tick of a Butterfly created at the spawn point p:
\* initialY + velocityY * (x / velocityX) + the wave, where velocityY /
\* velocityX is dy / dx of createBird whatever the speed
ButterflyFirstY(p) ==
    p.y + (p.x * (p.targetY - p.y)) \div (p.targetX - p.x) + Wave(p.x)

\* C35: a target that createBird spawns in a play area of positive size is
\* not retired on its first tick: for a Butterfly from any edge, velocityX
\* is not zero and the y of its first tick is within [-150, height + 150].
C35_FirstTickInBounds ==
    [][\A side \in 0 .. 3, rs \in PathSpawnDraws, rt \in PathTargetDraws,
         random \in PathSpecies :
          SpawnPath(side, rs, rt, random) =>
              LET p == SpawnPoint(side, rs, rt, NoKey)
              IN  /\ p.targetX # p.x
                  /\ ButterflyFirstY(p) >= -(OutMargin * Unit)
                  /\ ButterflyFirstY(p) <= size[2] * Unit + OutMargin * Unit]_vars

\* C36: in every committed state of the game screen, gameOver implies
\* gameStarted and seconds = 0, gameStarted implies countdown = 0, seconds
\* is within 0..60 and countdown within 0..3.
C36_RoundInvariant ==
    mounted =>
        /\ gameOver => (gameStarted /\ seconds = 0)
        /\ gameStarted => countdown = 0
        /\ seconds \in 0 .. RoundSeconds
        /\ countdown \in 0 .. StartCountdown

\* C36 witness: the countdown of a second round, after a round in which a
\* target was hit
C36_Witness ==
    /\ mounted /\ ~gameStarted /\ ~gameOver
    /\ countdown = 1 /\ seconds = RoundSeconds
    /\ cursorAnimRef = IdleCursor /\ hitCalls.pending

-----------------------------------------------------------------------------
(* Properties of the hit service *)

\* C37: at most one processQueue loop is active at a time, and isProcessing
\* is set exactly while one is; the hits queued are the hits submitted to
\* recordHit followed by the hits still in the queue, so each is submitted
\* once and in the order of the queueHit calls; and whenever a hit waits or
\* the loop is active, the service comes to rest with every queued hit
\* submitted, the queue empty and isProcessing false.
C37_AtRest ==
    /\ hitService.queue = <<>>
    /\ ~hitService.isProcessing
    /\ hitService.submitted = hitService.queued

C38_FailedHitRequeued ==
    [][(/\ Len(hitService'.results) = Len(hitService.results) + 1
        /\ ~hitService'.results[Len(hitService'.results)].success)
       => (/\ hitService'.queue # <<>>
           /\ Head(hitService'.queue) = hitService'.results[Len(hitService'.results)].hitData
           /\ Len(hitService'.queue) = Len(hitService.queue) + 1
           /\ ~hitService'.isProcessing)]_vars

\* C39 (as amended): a recordHitWithRetry call with maxRetries >= 1 that has
\* returned made at least one and at most maxRetries recordHit calls, all
\* but the last of which failed; it returned the successful result when the
\* last succeeded, and 'Max retries exceeded' exactly when all maxRetries
\* calls failed; and it never rejects.  At every moment of any call at most
\* one recordHit call has not failed (none follows a success).
C39_RetryContract ==
    LET r == hitService.retry
    IN  /\ r.calls - r.failures <= 1
        /\ r.result # "thrown"
        /\ (r.stage = "done" /\ r.maxRetries >= 1) =>
              /\ r.calls >= 1
              /\ r.calls <= r.maxRetries
              /\ r.result \in {"success", "Max retries exceeded"}
              /\ r.result = "success" <=> (r.failures = r.calls - 1)
              /\ r.result = "Max retries exceeded"
                    <=> (r.failures = r.calls /\ r.calls = r.maxRetries)

\* a call with the default limit that returned the success of its last attempt
C39_Witness ==
    /\ hitService.retry.stage = "done"
    /\ hitService.retry.maxRetries = MaxRetries
    /\ hitService.retry.calls = MaxRetries
    /\ hitService.retry.result = "success"

\* C39 (as stated): every recordHitWithRetry call that has returned made at
\* least one and at most maxRetries recordHit calls.
C39_AtLeastOnce ==
    hitService.retry.stage = "done" =>
        /\ hitService.retry.calls >= 1
        /\ hitService.retry.calls <= hitService.retry.maxRetries

-----------------------------------------------------------------------------
(* Properties of the hand-tracking view *)

\* C40: the hand view fires onPinch only on a rising edge: in a result with
\* a pinching hand whose previous result with a hand, if any, was not
\* pinching; a pinch held from one result to the next never fires again.
C40_RisingEdgeOnly ==
    [][handView'.fired > handView.fired =>
          /\ handView.lastFrame # "pinched"
          /\ handView'.lastFrame = "pinched"]_vars

====
